---- MODULE Spec2Model ----
(***************************************************************************)
(* Model of the graphwiki graph engine (graph-core).                       *)
(*                                                                         *)
(* The Store (WikiGraph, graph.rs) keeps its pages and links in a petgraph *)
(* DiGraph: a vector of nodes and a vector of edges, every node heading    *)
(* two intrusive singly linked lists of edges (outgoing, incoming).  Both  *)
(* vectors are compacted by swap-remove, so removing a node or an edge     *)
(* gives the index of the removed element to the last element.  The model  *)
(* keeps the vectors, the indices and the lists, because the behaviour of  *)
(* remove_page and remove_outgoing_edges depends on them.                  *)
(*                                                                         *)
(* Indices are 1-based here (0-based in the source); End models            *)
(* EdgeIndex::end().  Direction k = 1 is Outgoing (next[0] in the source), *)
(* k = 2 is Incoming (next[1]).                                            *)
(***************************************************************************)
EXTENDS Integers, Sequences, FiniteSets, TLC

\* ---------------------------------------------------------------- bounds
\* Longest link list handed to update_page.
MaxLinks == 2
\* Upper limit on the number of edges an add_link / update_page may reach.
MaxEdges == 3
\* Clock values (SystemTime) are 1..MaxTime.
MaxTime == 1
\* Most files a directory scan finds.
MaxFiles == 1
\* Most events handed to the queue in the queue's own specification.
MaxPushed == 4
\* Most watcher threads spawned.
MaxStarts == 2
\* Most batches waiting in a watcher's channel.
MaxBatches == 1
\* Most times one file is written.
MaxWrites == 1

\* Page names the operations are called with.
Names == {"A", "B", "C"}
Times == 1..MaxTime

\* --------------------------------------------------------------- values
NoText == "<none>"
DisplayTexts == {NoText, "txt"}

EmptyMeta == <<>>
SomeMeta == <<<<"tags", <<"x", "y">>>>>>

\* format!("{}.md", target): a path is <<directory, stem, extension>>.
StubPath(target) == <<"", target, "md">>

\* PageNode::new: empty metadata, last_modified = now.
PageNode_new(name, file_path, now) ==
    [name |-> name, file_path |-> file_path, metadata |-> EmptyMeta,
     last_modified |-> now]

PageNode_with_metadata(name, file_path, metadata, last_modified) ==
    [name |-> name, file_path |-> file_path, metadata |-> metadata,
     last_modified |-> last_modified]

\* A page as parsed from the file <name>.md in the root directory, and one
\* as parsed from sub/<name>.md with a metadata block.
PlainPage(name) == PageNode_with_metadata(name, <<"", name, "md">>, EmptyMeta, 1)
RichPage(name) == PageNode_with_metadata(name, <<"sub", name, "md">>, SomeMeta, MaxTime)

\* The pages a caller hands to add_page / update_page.
PlainPages == { PlainPage(n) : n \in Names }
AllPages == PlainPages \cup { RichPage(n) : n \in Names }

WikiLink(text) == [display_text |-> text]

ParsedLink(target, text) == [target |-> target, display_text |-> text]

\* The link lists of at most MaxLinks links with display texts from texts.
LinkLists(texts) ==
    UNION { [1..n -> { ParsedLink(t, d) : t \in Names, d \in texts }] :
              n \in 0..MaxLinks }

\* The link lists of at most one link.
ShortLinkLists(texts) ==
    {<<>>} \cup { <<ParsedLink(t, d)>> : t \in Names, d \in texts }

\* The results of a directory scan: at most MaxFiles parsed files.
FileLists(pages, texts) ==
    UNION { [1..n -> [page : pages, links : LinkLists(texts)]] :
              n \in 0..MaxFiles }

LinkCreated(from, to) == [type |-> "LinkCreated", from |-> from, to |-> to]
LinkRemoved(from, to) == [type |-> "LinkRemoved", from |-> from, to |-> to]

Range(f) == { f[i] : i \in DOMAIN f }

\* All orders in which the elements of a set can be iterated (HashSet).
Orders(S) == { q \in [1..Cardinality(S) -> S] : Range(q) = S }

\* ------------------------------------------------------ petgraph DiGraph
End == 0

DiGraph_new == [nodes |-> <<>>, edges |-> <<>>]

\* Vec::swap_remove
swap_remove(v, i) ==
    IF i = Len(v) THEN SubSeq(v, 1, Len(v) - 1)
    ELSE SubSeq(v, 1, i - 1) \o <<v[Len(v)]>> \o SubSeq(v, i + 1, Len(v) - 1)

add_node(g, w) ==
    [g EXCEPT !.nodes = Append(@, [weight |-> w, next |-> <<End, End>>])]

add_edge(g, a, b, w) ==
    LET e == Len(g.edges) + 1
        edge == [weight |-> w, node |-> <<a, b>>,
                 next |-> <<g.nodes[a].next[1], g.nodes[b].next[2]>>]
        n1 == [g.nodes EXCEPT ![a].next[1] = e]
        n2 == [n1 EXCEPT ![b].next[2] = e]
    IN  [nodes |-> n2, edges |-> Append(g.edges, edge)]

\* The edge ids of the list of direction k that starts at edge cur.
RECURSIVE edge_list(_, _, _)
edge_list(g, cur, k) ==
    IF cur \notin 1..Len(g.edges) THEN <<>>
    ELSE <<cur>> \o edge_list(g, g.edges[cur].next[k], k)

\* Graph::edges_directed(a, dir) as the sequence of edge ids it yields.
edges_directed(g, a, k) == edge_list(g, g.nodes[a].next[k], k)

\* Graph::neighbors_directed(a, dir) as the sequence of node ids it yields.
neighbors_directed(g, a, k) ==
    LET es == edges_directed(g, a, k)
    IN  [i \in 1..Len(es) |-> g.edges[es[i]].node[3 - k]]

\* Graph::contains_edge(a, b): walk a's outgoing list for target b.
contains_edge(g, a, b) ==
    \E i \in 1..Len(edges_directed(g, a, 1)) :
        g.edges[edges_directed(g, a, 1)[i]].node[2] = b

\* First edge of the list from cur whose next[k] is e, End if none.
RECURSIVE find_pred(_, _, _, _)
find_pred(g, cur, k, e) ==
    IF cur \notin 1..Len(g.edges) THEN End
    ELSE IF g.edges[cur].next[k] = e THEN cur
    ELSE find_pred(g, g.edges[cur].next[k], k, e)

change_edge_links_dir(g, k, edge_node, e, edge_next) ==
    LET n == edge_node[k] IN
    IF n \notin 1..Len(g.nodes) THEN g
    ELSE IF g.nodes[n].next[k] = e
    THEN [g EXCEPT !.nodes[n].next[k] = edge_next[k]]
    ELSE LET p == find_pred(g, g.nodes[n].next[k], k, e) IN
         IF p = End THEN g
         ELSE [g EXCEPT !.edges[p].next[k] = edge_next[k]]

\* Graph::change_edge_links: replace the links to e by links to edge_next.
change_edge_links(g, edge_node, e, edge_next) ==
    change_edge_links_dir(
        change_edge_links_dir(g, 1, edge_node, e, edge_next),
        2, edge_node, e, edge_next)

\* Graph::remove_edge_adjust_indices: swap_remove e; the edge that was last
\* adopts index e and the links to its old index are rewritten.
remove_edge_adjust_indices(g, e) ==
    LET swapped_e == Len(g.edges)
        g1 == [g EXCEPT !.edges = swap_remove(g.edges, e)]
    IN  IF e \notin 1..Len(g1.edges) THEN g1
        ELSE change_edge_links(g1, g1.edges[e].node, swapped_e, <<e, e>>)

\* Graph::remove_edge: None (no change) for an index out of bounds.
remove_edge(g, e) ==
    IF e \notin 1..Len(g.edges) THEN g
    ELSE remove_edge_adjust_indices(
             change_edge_links(g, g.edges[e].node, e, g.edges[e].next), e)

\* remove_node's loop: remove the head of a's list k until it is empty.
RECURSIVE remove_list(_, _, _)
remove_list(g, a, k) ==
    IF g.nodes[a].next[k] = End THEN g
    ELSE remove_list(remove_edge(g, g.nodes[a].next[k]), a, k)

\* remove_node's fix-up: the relocated node's edges get its new index.
RECURSIVE relabel(_, _, _, _)
relabel(edges, cur, k, new_index) ==
    IF cur \notin 1..Len(edges) THEN edges
    ELSE relabel([edges EXCEPT ![cur].node[k] = new_index],
                 edges[cur].next[k], k, new_index)

\* Graph::remove_node: drop a's edges, swap_remove a, relabel the last node.
remove_node(g, a) ==
    IF a \notin 1..Len(g.nodes) THEN g
    ELSE LET g1 == remove_list(remove_list(g, a, 1), a, 2)
             ns == swap_remove(g1.nodes, a)
         IN  IF a \notin 1..Len(ns) THEN [g1 EXCEPT !.nodes = ns]
             ELSE [nodes |-> ns,
                   edges |-> relabel(relabel(g1.edges, ns[a].next[1], 1, a),
                                     ns[a].next[2], 2, a)]

\* ------------------------------------------------------------- WikiGraph
VARIABLES
    graph,       \* WikiGraph.graph: DiGraph<PageNode, WikiLink>
    node_index,  \* WikiGraph.node_index: page name -> node index
    event_queue, \* EventQueue.inner: the buffered events and the lock's poison flag
    pushed,      \* history: every event appended to the queue, in order
    drained,     \* history: every event a drain_all has returned, in order
    disk,        \* the files under data_dir: path -> content, NoFile when absent
    threads,     \* the watcher threads spawned so far, in spawn order
    watcher_handle, \* GraphEngine.watcher_handle: None or the WatcherHandle
    caller,      \* the position of the foreground caller inside a facade call
    graph_lock   \* the Mutex around the WikiGraph: held or free, poisoned or not

store_vars == <<graph, node_index>>
queue_vars == <<event_queue, pushed, drained>>
watch_vars == <<disk, threads, watcher_handle, caller, graph_lock>>
vars == <<store_vars, queue_vars, watch_vars>>

\* The two fields of the WikiGraph as one value.
Store == [graph |-> graph, node_index |-> node_index]

WikiGraph_new == [graph |-> DiGraph_new, node_index |-> <<>>]

\* add_page that pushes a new node even when the name is indexed.
add_page_always_new(w, page) ==
    [graph |-> add_node(w.graph, page),
     node_index |-> (page.name :> (Len(w.graph.nodes) + 1)) @@ w.node_index]

\* add_page that leaves the page of an indexed name as it is.
add_page_keep_existing(w, page) ==
    IF page.name \in DOMAIN w.node_index THEN w
    ELSE [graph |-> add_node(w.graph, page),
          node_index |-> (page.name :> (Len(w.graph.nodes) + 1)) @@ w.node_index]

add_page(w, page) ==
    IF page.name \in DOMAIN w.node_index
    THEN [w EXCEPT !.graph.nodes[w.node_index[page.name]].weight = page]
    ELSE [graph |-> add_node(w.graph, page),
          node_index |-> (page.name :> (Len(w.graph.nodes) + 1)) @@ w.node_index]

\* Option<&PageNode>: the set holding the page, or the empty set.
get_page(w, name) ==
    IF name \in DOMAIN w.node_index
    THEN {w.graph.nodes[w.node_index[name]].weight}
    ELSE {}

page_exists(w, name) == name \in DOMAIN w.node_index

page_count(w) == Len(w.graph.nodes)

link_count(w) == Len(w.graph.edges)

\* The value add_link returns.
add_link_ok(w, from, to) ==
    from \in DOMAIN w.node_index /\ to \in DOMAIN w.node_index

\* add_link without the contains_edge test.
add_link_no_dedup(w, from, to, link) ==
    IF from \in DOMAIN w.node_index /\ to \in DOMAIN w.node_index
    THEN [w EXCEPT !.graph = add_edge(w.graph, w.node_index[from],
                                      w.node_index[to], link)]
    ELSE w

\* add_link that indexes a missing target instead of refusing.
add_link_autocreate(w, from, to, link) ==
    IF from \in DOMAIN w.node_index
    THEN LET w1 == IF to \in DOMAIN w.node_index THEN w
                   ELSE [graph |-> add_node(w.graph,
                                     PageNode_new(to, StubPath(to), 1)),
                         node_index |-> (to :> (Len(w.graph.nodes) + 1))
                                            @@ w.node_index]
         IN  IF ~contains_edge(w1.graph, w1.node_index[from], w1.node_index[to])
             THEN [w1 EXCEPT !.graph = add_edge(w1.graph, w1.node_index[from],
                                                w1.node_index[to], link)]
             ELSE w1
    ELSE w

\* The Store after add_link.
add_link(w, from, to, link) ==
    IF from \in DOMAIN w.node_index /\ to \in DOMAIN w.node_index
    THEN IF ~contains_edge(w.graph, w.node_index[from], w.node_index[to])
         THEN [w EXCEPT !.graph = add_edge(w.graph, w.node_index[from],
                                           w.node_index[to], link)]
         ELSE w
    ELSE w

get_backlinks(w, name) ==
    IF name \notin DOMAIN w.node_index THEN <<>>
    ELSE LET ns == neighbors_directed(w.graph, w.node_index[name], 2)
         IN  [i \in 1..Len(ns) |-> w.graph.nodes[ns[i]].weight.name]

get_outlinks(w, name) ==
    IF name \notin DOMAIN w.node_index THEN <<>>
    ELSE LET ns == neighbors_directed(w.graph, w.node_index[name], 1)
         IN  [i \in 1..Len(ns) |-> w.graph.nodes[ns[i]].weight.name]

clear(w) == [graph |-> DiGraph_new, node_index |-> <<>>]

\* The value remove_page returns.
remove_page_ok(w, name) == name \in DOMAIN w.node_index

\* remove_page without the index update for the relocated node.
remove_page_stale_index(w, name) ==
    IF name \in DOMAIN w.node_index
    THEN [graph |-> remove_node(w.graph, w.node_index[name]),
          node_index |-> [n \in (DOMAIN w.node_index) \ {name} |->
                              w.node_index[n]]]
    ELSE w

\* remove_page that drops the index entry and leaves the node in the graph.
remove_page_index_only(w, name) ==
    IF name \in DOMAIN w.node_index
    THEN [w EXCEPT !.node_index =
              [n \in (DOMAIN w.node_index) \ {name} |-> w.node_index[n]]]
    ELSE w

\* remove_page that leaves the removed name in the index.
remove_page_keep_entry(w, name) ==
    IF name \in DOMAIN w.node_index
    THEN LET idx == w.node_index[name]
             last_idx == Len(w.graph.nodes)
             swapped_name == w.graph.nodes[last_idx].weight.name
         IN  [graph |-> remove_node(w.graph, idx),
              node_index |-> IF idx # last_idx
                             THEN (swapped_name :> idx) @@ w.node_index
                             ELSE w.node_index]
    ELSE w

\* The Store after remove_page.
remove_page(w, name) ==
    IF name \in DOMAIN w.node_index
    THEN LET idx == w.node_index[name]
             removed == [n \in (DOMAIN w.node_index) \ {name} |-> w.node_index[n]]
             last_idx == Len(w.graph.nodes)
             swapped_name == w.graph.nodes[last_idx].weight.name
             fixed == IF idx # last_idx
                      THEN (swapped_name :> idx) @@ removed
                      ELSE removed
         IN  [graph |-> remove_node(w.graph, idx), node_index |-> fixed]
    ELSE w

\* The for loop of remove_outgoing_edges over the collected edge ids.
RECURSIVE remove_edges(_, _)
remove_edges(g, edges_to_remove) ==
    IF edges_to_remove = <<>> THEN g
    ELSE remove_edges(remove_edge(g, Head(edges_to_remove)),
                      Tail(edges_to_remove))

remove_outgoing_edges(w, name) ==
    IF name \in DOMAIN w.node_index
    THEN [w EXCEPT !.graph = remove_edges(w.graph,
                       edges_directed(w.graph, w.node_index[name], 1))]
    ELSE w

\* The loop over the links without the stub for a missing target.
RECURSIVE add_links_no_stub(_, _, _, _)
add_links_no_stub(w, name, links, now) ==
    IF links = <<>> THEN w
    ELSE add_links_no_stub(add_link(w, name, Head(links).target,
                                    WikiLink(Head(links).display_text)),
                           name, Tail(links), now)

\* The loop over the links of update_page and of build_from_directory's
\* second pass: a stub for a missing target, then the edge.
RECURSIVE add_links(_, _, _, _)
add_links(w, name, links, now) ==
    IF links = <<>> THEN w
    ELSE LET link == Head(links)
             w1 == IF ~page_exists(w, link.target)
                   THEN add_page(w, PageNode_new(link.target,
                                                 StubPath(link.target), now))
                   ELSE w
         IN  add_links(add_link(w1, name, link.target,
                                WikiLink(link.display_text)),
                       name, Tail(links), now)

\* update_page that reads the old outlinks after the old edges are removed.
update_page_late_capture(w, page, links, now) ==
    LET w1 == add_page(w, page)
        w2 == remove_outgoing_edges(w1, page.name)
        old_outlinks == Range(get_outlinks(w2, page.name))
        w3 == add_links(w2, page.name, links, now)
        new_outlinks == { links[i].target : i \in DOMAIN links }
    IN  [store |-> w3,
         removed |-> old_outlinks \ new_outlinks,
         created |-> new_outlinks \ old_outlinks]

\* update_page: the Store it leaves and the two set differences its events
\* are made from; now is the clock read for stub pages.
update_page(w, page, links, now) ==
    LET old_outlinks == Range(get_outlinks(w, page.name))
        w1 == add_page(w, page)
        w2 == remove_outgoing_edges(w1, page.name)
        w3 == add_links(w2, page.name, links, now)
        new_outlinks == { links[i].target : i \in DOMAIN links }
    IN  [store |-> w3,
         removed |-> old_outlinks \ new_outlinks,
         created |-> new_outlinks \ old_outlinks]

\* The event vectors update_page can return: the LinkRemoved events in any
\* iteration order of the first difference, then the LinkCreated events in
\* any iteration order of the second.
update_page_events(w, page, links, now) ==
    LET r == update_page(w, page, links, now)
    IN  { rm \o cr :
            rm \in Orders({ LinkRemoved(page.name, t) : t \in r.removed }),
            cr \in Orders({ LinkCreated(page.name, t) : t \in r.created }) }

\* build_from_directory, first pass: every parsed file becomes a node.
RECURSIVE add_pages(_, _)
add_pages(w, parsed_pages) ==
    IF parsed_pages = <<>> THEN w
    ELSE add_pages(add_page(w, Head(parsed_pages).page), Tail(parsed_pages))

\* build_from_directory, second pass: the links of every parsed file.
RECURSIVE add_all_links(_, _, _)
add_all_links(w, parsed_pages, now) ==
    IF parsed_pages = <<>> THEN w
    ELSE add_all_links(add_links(w, Head(parsed_pages).page.name,
                                 Head(parsed_pages).links, now),
                       Tail(parsed_pages), now)

\* A single pass over the files in which a page that is already there, as
\* the stub of an earlier file's link, is not replaced by the file's page.
RECURSIVE one_pass_keep_stub(_, _, _)
one_pass_keep_stub(w, parsed_pages, now) ==
    IF parsed_pages = <<>> THEN w
    ELSE LET file == Head(parsed_pages)
             w1 == IF page_exists(w, file.page.name) THEN w
                   ELSE add_page(w, file.page)
         IN  one_pass_keep_stub(add_links(w1, file.page.name, file.links, now),
                                Tail(parsed_pages), now)

build_from_directory_one_pass(w, parsed_pages, now) ==
    one_pass_keep_stub(clear(w), parsed_pages, now)

\* build_from_directory when the scan succeeds with parsed_pages.
build_from_directory(w, parsed_pages, now) ==
    add_all_links(add_pages(clear(w), parsed_pages), parsed_pages, now)

\* ------------------------------------------------------------ EventQueue
PageCreated(name) == [type |-> "PageCreated", name |-> name]
PageUpdated(name) == [type |-> "PageUpdated", name |-> name]
PageDeleted(name) == [type |-> "PageDeleted", name |-> name]

\* The queue is the VecDeque behind its Mutex; poisoned is the state of that
\* Mutex after a thread has panicked while holding it, when lock() returns
\* Err to every later caller.  Every operation below is one critical
\* section of that Mutex, so it is one atomic step.
EventQueue_new == [inner |-> <<>>, poisoned |-> FALSE]

push(q, event) ==
    IF ~q.poisoned THEN [q EXCEPT !.inner = Append(@, event)] ELSE q

push_all(q, events) ==
    IF ~q.poisoned THEN [q EXCEPT !.inner = @ \o events] ELSE q

\* drain_all that hands out a copy and leaves the events in the queue.
drain_all_keep(q) ==
    IF ~q.poisoned THEN [queue |-> q, events |-> q.inner]
    ELSE [queue |-> q, events |-> <<>>]

\* drain_all: the queue it leaves and the vector it returns.
drain_all(q) ==
    IF ~q.poisoned
    THEN [queue |-> [q EXCEPT !.inner = <<>>], events |-> q.inner]
    ELSE [queue |-> q, events |-> <<>>]

\* is_empty that unwraps the poisoned lock and reads the queue behind it.
is_empty_into_inner(q) == q.inner = <<>>

is_empty(q) == IF ~q.poisoned THEN q.inner = <<>> ELSE TRUE

len(q) == IF ~q.poisoned THEN Len(q.inner) ELSE 0

\* GraphEngine::poll_events and has_pending_events
poll_events(q) == drain_all(q).events
has_pending_events(q) == ~is_empty(q)

\* ----------------------------------------------------- files and watcher
\* A path below data_dir is <<directory, stem, extension>>, relative to
\* data_dir (strip_prefix).
extension(path) == path[3]
file_stem(path) == path[2]

\* The files that are written and removed: one markdown file per name of
\* FileNames and one file of another extension.
FileNames == {"A", "B"}
MdPath(name) == <<"", name, "md">>
TxtPath == <<"", "N", "txt">>
MdPaths == { MdPath(n) : n \in FileNames }
\* A markdown file in a subdirectory of data_dir.
SubPath == <<"sub", "C", "md">>
Paths == MdPaths \cup {TxtPath, SubPath}

\* No file at a path, before the first write (modified = 0) and after the
\* removal; NoPath and NoFile also fill the locals of a watcher thread that
\* hold no path and no content.
NoFile == [exists |-> FALSE, modified |-> 0]
Removed == [exists |-> FALSE, modified |-> MaxWrites]
NoPath == <<>>

\* A file: what parse_markdown finds in its text, and its modification time.
File(metadata, links, modified) ==
    [exists |-> TRUE, metadata |-> metadata, links |-> links,
     modified |-> modified]

\* The texts written to files in the model: no metadata, and no link or
\* one link to a name of targets.
Texts(targets) ==
    { [metadata |-> EmptyMeta, links |-> l] :
        l \in {<<>>} \cup { <<ParsedLink(n, NoText)>> : n \in targets } }

\* A watcher thread: its position in the closure of FileWatcher::start and
\* the locals of that closure.  pending and rx are the debouncer and the
\* channel the closure creates; events, seen_paths and graph_events are the
\* locals of process_events; path and content those of the file at hand.
NewThread ==
    [pc |-> "spawned", stop_flag |-> FALSE, pending |-> {}, rx |-> <<>>,
     events |-> <<>>, seen_paths |-> {}, graph_events |-> <<>>,
     path |-> NoPath, content |-> NoFile,
     was_existing |-> FALSE, outlinks |-> <<>>]

\* The thread after its closure has returned: the debouncer and the channel
\* are dropped with it.
Finished(th) ==
    [th EXCEPT !.pc = "done", !.pending = {}, !.rx = <<>>, !.events = <<>>,
               !.seen_paths = {}, !.graph_events = <<>>,
               !.path = NoPath, !.content = NoFile,
               !.was_existing = FALSE, !.outlinks = <<>>]

\* JoinHandle::is_finished
is_finished(t) == threads[t].pc = "done"

\* The debouncer of thread t is watching data_dir.
Watching(t) == threads[t].pc \notin {"spawned", "done"}
AnyWatching == \E t \in DOMAIN threads : Watching(t)

\* A raw notification for path reaches every debouncer that is watching.
RECURSIVE notify(_, _)
notify(ths, path) ==
    IF ths = <<>> THEN <<>>
    ELSE LET n == Len(ths)
             th == ths[n]
         IN  Append(notify(SubSeq(ths, 1, n - 1), path),
                    IF th.pc \notin {"spawned", "done"}
                    THEN [th EXCEPT !.pending = @ \cup {path}]
                    ELSE th)

\* handle_file_changed that returns the link events without the page event.
handle_file_changed_links_only(w, page_name, relative_path, file, now) ==
    LET page == PageNode_with_metadata(page_name, relative_path,
                                       file.metadata, file.modified)
    IN  [store |-> update_page(w, page, file.links, now).store,
         events |-> update_page_events(w, page, file.links, now)]

\* handle_file_changed that takes a page without outgoing links for a new
\* one: it removes the page before the update and reports PageCreated.
handle_file_changed_stub_as_new(w, page_name, relative_path, file, now) ==
    LET was_existing == /\ page_exists(w, page_name)
                        /\ get_outlinks(w, page_name) # <<>>
        w0 == IF was_existing THEN w ELSE remove_page(w, page_name)
        page == PageNode_with_metadata(page_name, relative_path,
                                       file.metadata, file.modified)
        first == IF was_existing THEN PageUpdated(page_name)
                 ELSE PageCreated(page_name)
    IN  [store |-> update_page(w0, page, file.links, now).store,
         events |-> { <<first>> \o link_events :
                        link_events \in update_page_events(w0, page,
                                                           file.links, now) }]

\* handle_file_changed once the file has been read: the Store it leaves and
\* the event vectors it can return.
handle_file_changed(w, page_name, relative_path, file, now) ==
    LET was_existing == page_exists(w, page_name)
        page == PageNode_with_metadata(page_name, relative_path,
                                       file.metadata, file.modified)
        first == IF was_existing THEN PageUpdated(page_name)
                 ELSE PageCreated(page_name)
    IN  [store |-> update_page(w, page, file.links, now).store,
         events |-> { <<first>> \o link_events :
                        link_events \in update_page_events(w, page,
                                                           file.links, now) }]

\* handle_file_deleted that also reports the links that pointed at the page.
handle_file_deleted_with_backlinks(w, page_name) ==
    IF ~page_exists(w, page_name) THEN [store |-> w, events |-> <<>>]
    ELSE LET outlinks == get_outlinks(w, page_name)
             backlinks == get_backlinks(w, page_name)
         IN  [store |-> remove_page(w, page_name),
              events |-> <<PageDeleted(page_name)>> \o
                         [i \in 1..Len(outlinks) |->
                              LinkRemoved(page_name, outlinks[i])] \o
                         [i \in 1..Len(backlinks) |->
                              LinkRemoved(backlinks[i], page_name)]]

\* handle_file_deleted: the Store it leaves and the events it returns.
handle_file_deleted(w, page_name) ==
    IF ~page_exists(w, page_name) THEN [store |-> w, events |-> <<>>]
    ELSE LET outlinks == get_outlinks(w, page_name)
         IN  [store |-> remove_page(w, page_name),
              events |-> <<PageDeleted(page_name)>> \o
                         [i \in 1..Len(outlinks) |->
                              LinkRemoved(page_name, outlinks[i])]]

\* WatcherHandle: the thread it was returned for (whose stop flag it
\* shares) and whether thread_handle is still Some.
WatcherHandle(t) == [some |-> TRUE, thread |-> t, thread_handle |-> TRUE]

\* Option<WatcherHandle>::None
NoHandle == [some |-> FALSE, thread |-> 0, thread_handle |-> FALSE]

\* WatcherHandle::is_running
is_running(handle) == handle.thread_handle /\ ~is_finished(handle.thread)

\* GraphEngine::is_watching
is_watching == IF ~watcher_handle.some THEN FALSE ELSE is_running(watcher_handle)

\* The foreground caller: the facade call it is in, its position there, the
\* handle it has taken out of the engine, and rebuild's was_watching.
\* result is what the last facade call returned: the call and its value.
NoResult == <<"none", "none">>

Idle ==
    [op |-> "idle", pc |-> "idle", handle |-> NoHandle, was_watching |-> FALSE,
     result |-> NoResult]

\* The facade call op returns value to the caller.
Return(op, value) == [Idle EXCEPT !.result = <<op, value>>]

\* Mutex::new
Mutex_new == [locked |-> FALSE, poisoned |-> FALSE]

\* lock() that does not wait for the holder.
lock_no_exclusion(m) == IF m.poisoned THEN "Err" ELSE "Ok"

\* Mutex::lock: it blocks while another thread holds the guard, and after a
\* holder has panicked it returns Err (PoisonError).
lock(m) ==
    IF m.locked THEN "Blocked" ELSE IF m.poisoned THEN "Err" ELSE "Ok"

\* recv_timeout that waits for a batch without a timeout.
recv_blocking(rx) == IF rx # <<>> THEN "Ok" ELSE "Block"

\* rx.recv_timeout(100 ms): a waiting batch is received, and with none the
\* wait ends with Timeout.
recv_timeout(rx) == IF rx # <<>> THEN "Ok" ELSE "Timeout"

\* The extension test that lets every file through.
is_md_any(path) == TRUE

\* path.extension().map_or(false, |ext| ext == "md")
is_md(path) == extension(path) = "md"

\* stop() that does not wait for the thread.
join_detached(handle) == TRUE

\* handle.join() inside WatcherHandle::stop returns: there is no thread
\* handle left to join, or the thread has finished.
join_returns(handle) == ~handle.thread_handle \/ is_finished(handle.thread)

\* start_watching that leaves a running watcher alone.
take_for_start_keep(handle) == NoHandle

\* start_watching: the handle whose watcher is stopped before the new one
\* is started (self.watcher_handle.take()).
take_for_start(handle) == handle

\* What the file system answers during a scan: whether data_dir is a
\* directory, the directories whose read_dir (or one of its entries) fails,
\* and the files whose read_to_string fails.
NoFaults == [is_dir |-> TRUE, failed |-> {}, unreadable |-> {}]

Accesses(dirs, paths) ==
    [is_dir : BOOLEAN, failed : SUBSET dirs, unreadable : SUBSET paths]

\* The entry scan_directory pushes for a file it has read.
ParsedPage(path) ==
    [page |-> PageNode_with_metadata(file_stem(path), path,
                                     disk[path].metadata, disk[path].modified),
     links |-> disk[path].links]

\* The for loop of scan_directory over the files in the order read_dir
\* yields them, the recursion into a subdirectory included: an error of
\* read_dir ends the scan, a file that is no .md file or cannot be read is
\* passed over.
RECURSIVE scan_entries(_, _)
scan_entries(order, access) ==
    IF order = <<>> THEN [ok |-> TRUE, results |-> <<>>]
    ELSE LET path == Head(order)
             rest == scan_entries(Tail(order), access)
         IN  IF path[1] \in access.failed THEN [ok |-> FALSE, results |-> <<>>]
             ELSE IF ~rest.ok THEN rest
             ELSE IF ~is_md(path) \/ path \in access.unreadable THEN rest
             ELSE [ok |-> TRUE, results |-> <<ParsedPage(path)>> \o rest.results]

\* scan_directory in which a file that cannot be read fails the scan.
scan_directory_strict(order, access) ==
    IF ~access.is_dir THEN [ok |-> TRUE, results |-> <<>>]
    ELSE IF "" \in access.failed
              \/ \E i \in DOMAIN order : order[i] \in access.unreadable
    THEN [ok |-> FALSE, results |-> <<>>]
    ELSE scan_entries(order, access)

\* scan_directory of data_dir: Ok with the parsed files, or the io::Error.
scan_directory(order, access) ==
    IF ~access.is_dir THEN [ok |-> TRUE, results |-> <<>>]
    ELSE IF "" \in access.failed THEN [ok |-> FALSE, results |-> <<>>]
    ELSE scan_entries(order, access)

\* build_from_directory that scans before it clears: a failed scan leaves
\* the previous graph.
build_from_directory_result_scan_first(w, scan, now) ==
    IF scan.ok
    THEN [ok |-> TRUE, store |-> build_from_directory(w, scan.results, now)]
    ELSE [ok |-> FALSE, store |-> w]

\* build_from_directory: the Store is cleared, then scanned; the pages are
\* added only when the scan has succeeded.
build_from_directory_result(w, scan, now) ==
    IF scan.ok
    THEN [ok |-> TRUE, store |-> build_from_directory(w, scan.results, now)]
    ELSE [ok |-> FALSE, store |-> clear(w)]

\* ---------------------------------------------------------------- actions
Init ==
    /\ graph = WikiGraph_new.graph
    /\ node_index = WikiGraph_new.node_index
    /\ event_queue = EventQueue_new
    /\ pushed = <<>>
    /\ drained = <<>>
    /\ disk = [p \in Paths |-> NoFile]
    /\ threads = <<>>
    /\ watcher_handle = NoHandle
    /\ caller = Idle
    /\ graph_lock = Mutex_new

AddPage(pages) ==
    \E page \in pages :
        LET w == add_page(Store, page) IN
        /\ graph' = w.graph
        /\ node_index' = w.node_index
        /\ UNCHANGED <<queue_vars, watch_vars>>

AddLink(texts) ==
    \E from \in Names, to \in Names, text \in texts :
        LET w == add_link(Store, from, to, WikiLink(text)) IN
        /\ link_count(w) <= MaxEdges
        /\ graph' = w.graph
        /\ node_index' = w.node_index
        /\ UNCHANGED <<queue_vars, watch_vars>>

RemovePage ==
    \E name \in Names :
        LET w == remove_page(Store, name) IN
        /\ graph' = w.graph
        /\ node_index' = w.node_index
        /\ UNCHANGED <<queue_vars, watch_vars>>

RemoveOutgoingEdges ==
    \E name \in Names :
        LET w == remove_outgoing_edges(Store, name) IN
        /\ graph' = w.graph
        /\ node_index' = w.node_index
        /\ UNCHANGED <<queue_vars, watch_vars>>

UpdatePage(pages, lists) ==
    \E page \in pages, links \in lists, now \in Times :
        LET w == update_page(Store, page, links, now).store IN
        /\ link_count(w) <= MaxEdges
        /\ graph' = w.graph
        /\ node_index' = w.node_index
        /\ UNCHANGED <<queue_vars, watch_vars>>

BuildFromDirectory(pages, texts) ==
    \E parsed_pages \in FileLists(pages, texts), now \in Times :
        LET w == build_from_directory(Store, parsed_pages, now) IN
        /\ link_count(w) <= MaxEdges
        /\ graph' = w.graph
        /\ node_index' = w.node_index
        /\ UNCHANGED <<queue_vars, watch_vars>>

Clear ==
    LET w == clear(Store) IN
    /\ graph' = w.graph
    /\ node_index' = w.node_index
    /\ UNCHANGED <<queue_vars, watch_vars>>

\* The Store driven through all its operations, every page as parsed from
\* <name>.md and every link without display text.
Next ==
    \/ AddPage(PlainPages)
    \/ AddLink({NoText})
    \/ RemovePage
    \/ RemoveOutgoingEdges
    \/ UpdatePage(PlainPages, LinkLists({NoText}))
    \/ BuildFromDirectory(PlainPages, {NoText})
    \/ Clear

Spec == Init /\ [][Next]_vars

\* The Store driven with pages of differing attributes; update_page is
\* called with at most one link.
NextAttrs ==
    \/ AddPage(AllPages)
    \/ AddLink({NoText})
    \/ RemovePage
    \/ RemoveOutgoingEdges
    \/ UpdatePage(AllPages, ShortLinkLists({NoText}))
    \/ Clear

SpecAttrs == Init /\ [][NextAttrs]_vars

\* The Store driven with links of differing display texts; update_page is
\* called with at most one link.
NextText ==
    \/ AddPage(PlainPages)
    \/ AddLink(DisplayTexts)
    \/ RemovePage
    \/ RemoveOutgoingEdges
    \/ UpdatePage(PlainPages, ShortLinkLists(DisplayTexts))
    \/ Clear

SpecText == Init /\ [][NextText]_vars

\* ------------------------------------------------------- queue actions
\* Any thread pushes one event.
QueuePush(events) ==
    \E event \in events :
        /\ Len(pushed) < MaxPushed
        /\ event_queue' = push(event_queue, event)
        /\ pushed' = Append(pushed, event)
        /\ UNCHANGED <<drained, store_vars, watch_vars>>

\* Any thread pushes a vector of at most two events.
QueuePushAll(events) ==
    \E batch \in UNION { [1..n -> events] : n \in 0..2 } :
        /\ Len(pushed) + Len(batch) <= MaxPushed
        /\ event_queue' = push_all(event_queue, batch)
        /\ pushed' = pushed \o batch
        /\ UNCHANGED <<drained, store_vars, watch_vars>>

\* Any thread drains the queue.
QueueDrainAll ==
    LET r == drain_all(event_queue) IN
    /\ event_queue' = r.queue
    /\ drained' = drained \o r.events
    /\ UNCHANGED <<pushed, store_vars, watch_vars>>

\* A thread panics while it holds the queue's lock.
QueuePoison ==
    /\ ~event_queue.poisoned
    /\ event_queue' = [event_queue EXCEPT !.poisoned = TRUE]
    /\ UNCHANGED <<pushed, drained, store_vars, watch_vars>>

QueueEvents == {PageCreated("A"), LinkCreated("A", "B")}

NextQueue ==
    \/ QueuePush(QueueEvents)
    \/ QueuePushAll(QueueEvents)
    \/ QueueDrainAll
    \/ QueuePoison

SpecQueue == Init /\ [][NextQueue]_vars

\* ------------------------------------------------- file system actions
\* A file is created or rewritten while watched holds; its modification
\* time counts the writes.
FileWrite(paths, texts, watched) ==
    \E path \in paths, text \in texts :
        /\ watched
        /\ disk[path] # Removed
        /\ disk[path].modified < MaxWrites
        /\ disk' = [disk EXCEPT ![path] =
                       File(text.metadata, text.links, @.modified + 1)]
        /\ threads' = notify(threads, path)
        /\ UNCHANGED <<store_vars, queue_vars, watcher_handle, caller, graph_lock>>

\* A file is removed while watched holds, and not created again.
FileRemove(paths, watched) ==
    \E path \in paths :
        /\ watched
        /\ disk[path].exists
        /\ disk' = [disk EXCEPT ![path] = Removed]
        /\ threads' = notify(threads, path)
        /\ UNCHANGED <<store_vars, queue_vars, watcher_handle, caller, graph_lock>>

\* A removed file is created again while watched holds, as long as the
\* queue holds fewer than MaxPushed events.
FileRecreate(paths, texts, watched) ==
    \E path \in paths, text \in texts :
        /\ watched
        /\ disk[path] = Removed
        /\ Len(event_queue.inner) < MaxPushed
        /\ disk' = [disk EXCEPT ![path] =
                       File(text.metadata, text.links, MaxWrites)]
        /\ threads' = notify(threads, path)
        /\ UNCHANGED <<store_vars, queue_vars, watcher_handle, caller, graph_lock>>

\* The debouncer of thread t sends the paths it has collected as one batch,
\* in any order.
Debounce(t) ==
    /\ Watching(t)
    /\ threads[t].pending # {}
    /\ Len(threads[t].rx) < MaxBatches
    /\ \E batch \in Orders(threads[t].pending) :
           threads' = [threads EXCEPT ![t].rx = Append(@, batch),
                                      ![t].pending = {}]
    /\ UNCHANGED <<store_vars, queue_vars, disk, watcher_handle, caller, graph_lock>>

\* The debouncer of thread t sends a batch in which some of the collected
\* paths come a second time.
DebounceRepeated(t) ==
    /\ Watching(t)
    /\ threads[t].pending # {}
    /\ Len(threads[t].rx) < MaxBatches
    /\ \E batch \in Orders(threads[t].pending) :
         \E again \in SUBSET threads[t].pending :
           \E repeated \in Orders(again) :
             threads' = [threads EXCEPT ![t].rx = Append(@, batch \o repeated),
                                        ![t].pending = {}]
    /\ UNCHANGED <<store_vars, queue_vars, disk, watcher_handle, caller, graph_lock>>

\* ---------------------------------------------- watcher thread actions
\* new_debouncer and watch(data_dir) at the head of the thread's closure:
\* on an error the closure returns.
WatcherStartup(t, outcomes) ==
    /\ threads[t].pc = "spawned"
    /\ \E ok \in outcomes :
           threads' = [threads EXCEPT ![t] =
                          IF ok THEN [@ EXCEPT !.pc = "loop"] ELSE Finished(@)]
    /\ UNCHANGED <<store_vars, queue_vars, disk, watcher_handle, caller, graph_lock>>

\* The head of the loop: break when the stop flag is set.
WatcherCheckStop(t) ==
    /\ threads[t].pc = "loop"
    /\ threads' = [threads EXCEPT ![t] =
                      IF @.stop_flag THEN Finished(@)
                      ELSE [@ EXCEPT !.pc = "recv"]]
    /\ UNCHANGED <<store_vars, queue_vars, disk, watcher_handle, caller, graph_lock>>

\* rx.recv_timeout: a batch enters process_events, or the wait times out.
WatcherRecv(t) ==
    /\ threads[t].pc = "recv"
    /\ LET th == threads[t]
           res == recv_timeout(th.rx)
       IN  /\ res \in {"Ok", "Timeout"}
           /\ threads' = [threads EXCEPT ![t] =
                  IF res = "Ok"
                  THEN [th EXCEPT !.pc = "process", !.events = Head(th.rx),
                                  !.rx = Tail(th.rx), !.seen_paths = {},
                                  !.graph_events = <<>>]
                  ELSE [th EXCEPT !.pc = "loop"]]
    /\ UNCHANGED <<store_vars, queue_vars, disk, watcher_handle, caller, graph_lock>>

\* A test that finds every notified path on disk.
path_exists_always(d, path) == TRUE

\* path.exists(): the file is on disk now.
path_exists(d, path) == d[path].exists

\* A for loop of process_events without the test of seen_paths.
WatcherProcess_no_dedup(t) ==
    /\ threads[t].pc = "process"
    /\ LET th == threads[t] IN
       threads' = [threads EXCEPT ![t] =
           IF th.events = <<>> THEN [th EXCEPT !.pc = "push"]
           ELSE LET path == Head(th.events)
                    rest == [th EXCEPT !.events = Tail(th.events)]
                IN  IF ~is_md(path) THEN rest
                    ELSE [rest EXCEPT !.seen_paths = @ \cup {path},
                                      !.path = path,
                                      !.pc = IF path_exists(disk, path)
                                             THEN "changed" ELSE "deleted"]]
    /\ UNCHANGED <<store_vars, queue_vars, disk, watcher_handle, caller, graph_lock>>

\* A for loop of process_events that looks at the stop flag before every
\* path and abandons the batch when it is set.
WatcherProcess_observes_stop(t) ==
    /\ threads[t].pc = "process"
    /\ LET th == threads[t] IN
       threads' = [threads EXCEPT ![t] =
           IF th.stop_flag THEN Finished(th)
           ELSE IF th.events = <<>> THEN [th EXCEPT !.pc = "push"]
           ELSE LET path == Head(th.events)
                    rest == [th EXCEPT !.events = Tail(th.events)]
                IN  IF ~is_md(path) THEN rest
                    ELSE IF path \in th.seen_paths THEN rest
                    ELSE [rest EXCEPT !.seen_paths = @ \cup {path},
                                      !.path = path,
                                      !.pc = IF path_exists(disk, path)
                                             THEN "changed" ELSE "deleted"]]
    /\ UNCHANGED <<store_vars, queue_vars, disk, watcher_handle, caller, graph_lock>>

\* One turn of the for loop of process_events up to path.exists(), or the
\* end of the loop.
WatcherProcess(t) ==
    /\ threads[t].pc = "process"
    /\ LET th == threads[t] IN
       threads' = [threads EXCEPT ![t] =
           IF th.events = <<>> THEN [th EXCEPT !.pc = "push"]
           ELSE LET path == Head(th.events)
                    rest == [th EXCEPT !.events = Tail(th.events)]
                IN  IF ~is_md(path) THEN rest
                    ELSE IF path \in th.seen_paths THEN rest
                    ELSE [rest EXCEPT !.seen_paths = @ \cup {path},
                                      !.path = path,
                                      !.pc = IF path_exists(disk, path)
                                             THEN "changed" ELSE "deleted"]]
    /\ UNCHANGED <<store_vars, queue_vars, disk, watcher_handle, caller, graph_lock>>

\* handle_file_changed, fs::read_to_string: the file is read, or it has
\* gone and the path is skipped.
WatcherRead(t) ==
    /\ threads[t].pc = "changed"
    /\ LET th == threads[t] IN
       threads' = [threads EXCEPT ![t] =
           IF ~disk[th.path].exists
           THEN [th EXCEPT !.pc = "process", !.path = NoPath]
           ELSE [th EXCEPT !.pc = "update", !.content = disk[th.path]]]
    /\ UNCHANGED <<store_vars, queue_vars, disk, watcher_handle, caller, graph_lock>>

\* A failed read that ends process_events with the paths read so far.
WatcherReadFails_aborts_batch(t) ==
    /\ threads[t].pc = "changed"
    /\ disk[threads[t].path].exists
    /\ threads' = [threads EXCEPT ![t] =
           [@ EXCEPT !.pc = "push", !.path = NoPath, !.events = <<>>]]
    /\ UNCHANGED <<store_vars, queue_vars, disk, watcher_handle, caller, graph_lock>>

\* handle_file_changed, fs::read_to_string fails on a file that is there
\* (no permission, no valid UTF-8): the path is skipped.
WatcherReadFails(t) ==
    /\ threads[t].pc = "changed"
    /\ disk[threads[t].path].exists
    /\ threads' = [threads EXCEPT ![t] =
           [@ EXCEPT !.pc = "process", !.path = NoPath]]
    /\ UNCHANGED <<store_vars, queue_vars, disk, watcher_handle, caller, graph_lock>>

\* handle_file_changed under the Store lock: page_exists, update_page and
\* the events; with the lock poisoned it returns no events.
WatcherUpdate(t) ==
    /\ threads[t].pc = "update"
    /\ lock(graph_lock) # "Blocked"
    /\ \E now \in Times :
         LET th == threads[t]
             r == IF lock(graph_lock) = "Err"
                  THEN [store |-> Store, events |-> {<<>>}]
                  ELSE handle_file_changed(Store, file_stem(th.path), th.path,
                                           th.content, now)
         IN  \E events \in r.events :
               /\ graph' = r.store.graph
               /\ node_index' = r.store.node_index
               /\ threads' = [threads EXCEPT ![t] =
                      [th EXCEPT !.pc = "process", !.path = NoPath,
                                 !.content = NoFile,
                                 !.graph_events = @ \o events]]
    /\ UNCHANGED <<queue_vars, disk, watcher_handle, caller, graph_lock>>

\* handle_file_deleted under the Store lock; with the lock poisoned it
\* returns no events.
WatcherDelete(t) ==
    /\ threads[t].pc = "deleted"
    /\ lock(graph_lock) # "Blocked"
    /\ LET th == threads[t]
           r == IF lock(graph_lock) = "Err"
                THEN [store |-> Store, events |-> <<>>]
                ELSE handle_file_deleted(Store, file_stem(th.path))
       IN  /\ graph' = r.store.graph
           /\ node_index' = r.store.node_index
           /\ threads' = [threads EXCEPT ![t] =
                  [th EXCEPT !.pc = "process", !.path = NoPath,
                             !.graph_events = @ \o r.events]]
    /\ UNCHANGED <<queue_vars, disk, watcher_handle, caller, graph_lock>>

\* A push of the batch's events one by one, each in its own critical
\* section of the queue.
WatcherPush_one_by_one(t) ==
    /\ threads[t].pc = "push"
    /\ LET th == threads[t] IN
       IF th.graph_events = <<>>
       THEN /\ threads' = [threads EXCEPT ![t] =
                   [th EXCEPT !.pc = "loop", !.seen_paths = {}]]
            /\ UNCHANGED event_queue
       ELSE /\ event_queue' = push(event_queue, Head(th.graph_events))
            /\ threads' = [threads EXCEPT ![t] =
                   [th EXCEPT !.graph_events = Tail(th.graph_events)]]
    /\ UNCHANGED <<store_vars, pushed, drained, disk, watcher_handle, caller, graph_lock>>

\* The batch's events go to the queue in one push_all, when there are any.
WatcherPush(t) ==
    /\ threads[t].pc = "push"
    /\ event_queue' = IF threads[t].graph_events # <<>>
                      THEN push_all(event_queue, threads[t].graph_events)
                      ELSE event_queue
    /\ threads' = [threads EXCEPT ![t] =
           [@ EXCEPT !.pc = "loop", !.graph_events = <<>>, !.seen_paths = {}]]
    /\ UNCHANGED <<store_vars, pushed, drained, disk, watcher_handle, caller, graph_lock>>

\* ------------------------------------------------ GraphEngine actions
\* WatcherHandle::stop up to the join: the stop flag is set.
set_stop_flag(ths, handle) == [ths EXCEPT ![handle.thread].stop_flag = TRUE]

\* start_watching up to the join of the watcher it replaces.
StartWatching(starts) ==
    /\ caller.pc = "idle"
    /\ Len(threads) < starts
    /\ LET handle == take_for_start(watcher_handle) IN
       IF handle.some
       THEN /\ watcher_handle' = NoHandle
            /\ threads' = set_stop_flag(threads, handle)
            /\ caller' = [op |-> "start_watching", pc |-> "join",
                          handle |-> handle, was_watching |-> FALSE,
                          result |-> caller.result]
       ELSE /\ caller' = [op |-> "start_watching", pc |-> "spawn",
                          handle |-> NoHandle, was_watching |-> FALSE,
                          result |-> caller.result]
            /\ UNCHANGED <<threads, watcher_handle>>
    /\ UNCHANGED <<store_vars, queue_vars, disk, graph_lock>>

\* stop_watching up to the join.
StopWatching ==
    /\ caller.pc = "idle"
    /\ watcher_handle.some
    /\ watcher_handle' = NoHandle
    /\ threads' = set_stop_flag(threads, watcher_handle)
    /\ caller' = [op |-> "stop_watching", pc |-> "join",
                  handle |-> watcher_handle, was_watching |-> FALSE,
                          result |-> caller.result]
    /\ UNCHANGED <<store_vars, queue_vars, disk, graph_lock>>

\* rebuild up to the join (a running watcher is stopped first) or up to
\* the build.
Rebuild ==
    /\ caller.pc = "idle"
    /\ Len(threads) < MaxStarts
    /\ IF is_watching
       THEN /\ watcher_handle' = NoHandle
            /\ threads' = set_stop_flag(threads, watcher_handle)
            /\ caller' = [op |-> "rebuild", pc |-> "join",
                          handle |-> watcher_handle, was_watching |-> TRUE,
                          result |-> caller.result]
       ELSE /\ caller' = [op |-> "rebuild", pc |-> "build",
                          handle |-> NoHandle, was_watching |-> FALSE,
                          result |-> caller.result]
            /\ UNCHANGED <<threads, watcher_handle>>
    /\ UNCHANGED <<store_vars, queue_vars, disk, graph_lock>>

\* The engine is discarded: its WatcherHandle is dropped, and Drop calls
\* stop.
DropEngine ==
    /\ caller.pc = "idle"
    /\ IF watcher_handle.some
       THEN /\ watcher_handle' = NoHandle
            /\ threads' = set_stop_flag(threads, watcher_handle)
            /\ caller' = [op |-> "drop", pc |-> "join",
                          handle |-> watcher_handle, was_watching |-> FALSE,
                          result |-> caller.result]
       ELSE /\ caller' = [op |-> "drop", pc |-> "dropped",
                          handle |-> NoHandle, was_watching |-> FALSE,
                          result |-> caller.result]
            /\ UNCHANGED <<threads, watcher_handle>>
    /\ UNCHANGED <<store_vars, queue_vars, disk, graph_lock>>

\* The join inside stop returns and stop with it.
JoinReturns ==
    /\ caller.pc = "join"
    /\ join_returns(caller.handle)
    /\ caller' = [caller EXCEPT !.handle.thread_handle = FALSE,
                                !.pc = IF caller.op = "drop" THEN "dropped"
                                       ELSE "drop_handle"]
    /\ UNCHANGED <<store_vars, queue_vars, disk, threads, watcher_handle, graph_lock>>

\* The stopped handle goes out of scope: Drop calls stop once more, which
\* sets the flag and finds no thread handle to join.
DropHandle ==
    /\ caller.pc = "drop_handle"
    /\ threads' = set_stop_flag(threads, caller.handle)
    /\ join_returns(caller.handle)
    /\ caller' = IF caller.op = "start_watching"
                 THEN [caller EXCEPT !.pc = "spawn", !.handle = NoHandle]
                 ELSE IF caller.op = "rebuild"
                 THEN [caller EXCEPT !.pc = "build", !.handle = NoHandle]
                 ELSE Return(caller.op, "Ok")
    /\ UNCHANGED <<store_vars, queue_vars, disk, watcher_handle, graph_lock>>

\* FileWatcher::start: the thread is spawned and its handle stored.
Spawn ==
    /\ caller.pc = "spawn"
    /\ threads' = Append(threads, NewThread)
    /\ watcher_handle' = WatcherHandle(Len(threads) + 1)
    /\ caller' = Return(caller.op, "Ok")
    /\ UNCHANGED <<store_vars, queue_vars, disk, graph_lock>>

\* rebuild after the watcher is stopped: the Store lock (a poisoned lock
\* is a RuntimeError), build_from_directory (its error is an IOError), then
\* the restart of the watcher when one was running.
Build(accesses) ==
    /\ caller.pc = "build"
    /\ lock(graph_lock) # "Blocked"
    /\ IF lock(graph_lock) = "Err"
       THEN /\ caller' = Return("rebuild", "RuntimeError")
            /\ UNCHANGED store_vars
       ELSE \E access \in accesses,
               order \in Orders({ p \in Paths : disk[p].exists }),
               now \in Times :
              LET r == build_from_directory_result(
                           Store, scan_directory(order, access), now)
              IN  /\ graph' = r.store.graph
                  /\ node_index' = r.store.node_index
                  /\ caller' = IF ~r.ok THEN Return("rebuild", "IOError")
                               ELSE IF caller.was_watching
                               THEN [caller EXCEPT !.pc = "spawn"]
                               ELSE Return("rebuild", "Ok")
    /\ UNCHANGED <<queue_vars, disk, threads, watcher_handle, graph_lock>>

\* poll_events
PollEvents ==
    /\ caller.pc = "idle"
    /\ event_queue.inner # <<>>
    /\ event_queue' = drain_all(event_queue).queue
    /\ UNCHANGED <<store_vars, pushed, drained, watch_vars>>

\* ---------------------------------- the critical sections, step by step
\* handle_file_changed, graph.lock(): the guard is taken, or the lock is
\* poisoned and the file is passed over.
LockChanged(t) ==
    /\ threads[t].pc = "update"
    /\ lock(graph_lock) # "Blocked"
    /\ LET th == threads[t] IN
       IF lock(graph_lock) = "Err"
       THEN /\ threads' = [threads EXCEPT ![t] =
                   [th EXCEPT !.pc = "process", !.path = NoPath,
                              !.content = NoFile]]
            /\ UNCHANGED graph_lock
       ELSE /\ threads' = [threads EXCEPT ![t].pc = "update_locked"]
            /\ graph_lock' = [graph_lock EXCEPT !.locked = TRUE]
    /\ UNCHANGED <<store_vars, queue_vars, disk, watcher_handle, caller>>

\* The existence check that takes every page for a new one.
CheckExisting_always_new(t) ==
    /\ threads[t].pc = "update_locked"
    /\ LET th == threads[t] IN
       threads' = [threads EXCEPT ![t] =
           [th EXCEPT !.pc = "update_checked", !.was_existing = FALSE]]
    /\ UNCHANGED <<store_vars, queue_vars, disk, watcher_handle, caller,
                   graph_lock>>

\* handle_file_changed, was_existing = graph_guard.page_exists(page_name)
CheckExisting(t) ==
    /\ threads[t].pc = "update_locked"
    /\ LET th == threads[t] IN
       threads' = [threads EXCEPT ![t] =
           [th EXCEPT !.pc = "update_checked",
                      !.was_existing = page_exists(Store, file_stem(th.path))]]
    /\ UNCHANGED <<store_vars, queue_vars, disk, watcher_handle, caller,
                   graph_lock>>

\* handle_file_changed, update_page and the events; the guard is dropped
\* at the return.
ApplyUpdate(t) ==
    /\ threads[t].pc = "update_checked"
    /\ \E now \in Times :
         LET th == threads[t]
             page == PageNode_with_metadata(file_stem(th.path), th.path,
                                            th.content.metadata,
                                            th.content.modified)
             first == IF th.was_existing THEN PageUpdated(page.name)
                      ELSE PageCreated(page.name)
             w == update_page(Store, page, th.content.links, now).store
         IN  \E link_events \in update_page_events(Store, page,
                                                    th.content.links, now) :
               /\ graph' = w.graph
               /\ node_index' = w.node_index
               /\ threads' = [threads EXCEPT ![t] =
                      [th EXCEPT !.pc = "process", !.path = NoPath,
                                 !.content = NoFile, !.was_existing = FALSE,
                                 !.graph_events = @ \o <<first>> \o link_events]]
    /\ graph_lock' = [graph_lock EXCEPT !.locked = FALSE]
    /\ UNCHANGED <<queue_vars, disk, watcher_handle, caller>>

\* handle_file_deleted, graph.lock()
LockDeleted(t) ==
    /\ threads[t].pc = "deleted"
    /\ lock(graph_lock) # "Blocked"
    /\ IF lock(graph_lock) = "Err"
       THEN /\ threads' = [threads EXCEPT ![t] =
                   [@ EXCEPT !.pc = "process", !.path = NoPath]]
            /\ UNCHANGED graph_lock
       ELSE /\ threads' = [threads EXCEPT ![t].pc = "delete_locked"]
            /\ graph_lock' = [graph_lock EXCEPT !.locked = TRUE]
    /\ UNCHANGED <<store_vars, queue_vars, disk, watcher_handle, caller>>

\* handle_file_deleted, page_exists and the capture of the outlinks: an
\* unknown page ends the call.
CaptureOutlinks(t) ==
    /\ threads[t].pc = "delete_locked"
    /\ LET th == threads[t] IN
       IF ~page_exists(Store, file_stem(th.path))
       THEN /\ threads' = [threads EXCEPT ![t] =
                   [th EXCEPT !.pc = "process", !.path = NoPath]]
            /\ graph_lock' = [graph_lock EXCEPT !.locked = FALSE]
       ELSE /\ threads' = [threads EXCEPT ![t] =
                   [th EXCEPT !.pc = "delete_captured",
                              !.outlinks = get_outlinks(Store,
                                                        file_stem(th.path))]]
            /\ UNCHANGED graph_lock
    /\ UNCHANGED <<store_vars, queue_vars, disk, watcher_handle, caller>>

\* handle_file_deleted, remove_page and the events; the guard is dropped at
\* the return.
RemoveCaptured(t) ==
    /\ threads[t].pc = "delete_captured"
    /\ LET th == threads[t]
           name == file_stem(th.path)
           w == remove_page(Store, name)
       IN  /\ graph' = w.graph
           /\ node_index' = w.node_index
           /\ threads' = [threads EXCEPT ![t] =
                  [th EXCEPT !.pc = "process", !.path = NoPath,
                             !.outlinks = <<>>,
                             !.graph_events = @ \o <<PageDeleted(name)>> \o
                                 [i \in 1..Len(th.outlinks) |->
                                      LinkRemoved(name, th.outlinks[i])]]]
    /\ graph_lock' = [graph_lock EXCEPT !.locked = FALSE]
    /\ UNCHANGED <<queue_vars, disk, watcher_handle, caller>>

\* A facade call that takes the guard of the Store and, holding it, stops
\* the watcher and waits for its thread.
ReadLock_then_join(ops) ==
    /\ caller.pc = "idle"
    /\ lock(graph_lock) = "Ok"
    /\ watcher_handle.some
    /\ \E op \in ops :
         caller' = [op |-> op, pc |-> "join", handle |-> watcher_handle,
                    was_watching |-> FALSE, result |-> caller.result]
    /\ graph_lock' = [graph_lock EXCEPT !.locked = TRUE]
    /\ watcher_handle' = NoHandle
    /\ threads' = set_stop_flag(threads, watcher_handle)
    /\ UNCHANGED <<store_vars, queue_vars, disk>>

\* A read of the facade, graph.lock(): the guard is taken, or the lock is
\* poisoned and the call returns the error.
ReadLock(ops) ==
    /\ caller.pc = "idle"
    /\ lock(graph_lock) # "Blocked"
    /\ \E op \in ops :
         IF lock(graph_lock) = "Err"
         THEN /\ caller' = Return(op, "RuntimeError")
              /\ UNCHANGED graph_lock
         ELSE /\ caller' = [Idle EXCEPT !.op = op, !.pc = "reading",
                                        !.result = caller.result]
              /\ graph_lock' = [graph_lock EXCEPT !.locked = TRUE]
    /\ UNCHANGED <<store_vars, queue_vars, disk, threads, watcher_handle>>

\* The read returns its value and drops the guard.
ReadUnlock ==
    /\ caller.pc = "reading"
    /\ caller' = Return(caller.op, "Ok")
    /\ graph_lock' = [graph_lock EXCEPT !.locked = FALSE]
    /\ UNCHANGED <<store_vars, queue_vars, disk, threads, watcher_handle>>

\* No thread holds the guard of the queue's Mutex: no watcher is inside
\* push_all and the caller is not inside drain_all.
QueueFree ==
    /\ caller.pc # "draining"
    /\ \A t \in DOMAIN threads : threads[t].pc # "push_locked"

\* The end of a batch: with no events nothing is pushed; otherwise
\* push_all takes the guard of the queue.
QueueLock(t) ==
    /\ threads[t].pc = "push"
    /\ IF threads[t].graph_events = <<>>
       THEN threads' = [threads EXCEPT ![t] =
                [@ EXCEPT !.pc = "loop", !.seen_paths = {}]]
       ELSE /\ QueueFree
            /\ threads' = [threads EXCEPT ![t].pc = "push_locked"]
    /\ UNCHANGED <<store_vars, queue_vars, disk, watcher_handle, caller,
                   graph_lock>>

\* push_all appends the batch and drops the guard.
PushLocked(t) ==
    /\ threads[t].pc = "push_locked"
    /\ event_queue' = push_all(event_queue, threads[t].graph_events)
    /\ threads' = [threads EXCEPT ![t] =
           [@ EXCEPT !.pc = "loop", !.graph_events = <<>>, !.seen_paths = {}]]
    /\ UNCHANGED <<store_vars, pushed, drained, disk, watcher_handle, caller,
                   graph_lock>>

\* poll_events, drain_all takes the guard of the queue.
PollLock ==
    /\ caller.pc = "idle"
    /\ QueueFree
    /\ caller' = [Idle EXCEPT !.op = "poll_events", !.pc = "draining",
                              !.result = caller.result]
    /\ UNCHANGED <<store_vars, queue_vars, disk, threads, watcher_handle,
                   graph_lock>>

\* drain_all empties the queue and drops the guard; poll_events returns.
PollUnlock ==
    /\ caller.pc = "draining"
    /\ event_queue' = drain_all(event_queue).queue
    /\ caller' = Return("poll_events", "Ok")
    /\ UNCHANGED <<store_vars, pushed, drained, disk, threads, watcher_handle,
                   graph_lock>>

\* The read operations of the facade.
ReadOps == {"page_count", "get_outlinks", "query"}

\* A read of the facade (list_pages, get_page, page_exists, page_count,
\* link_count, get_backlinks, get_outlinks, get_metadata, query, metatable):
\* the Store lock, with map_err(PyRuntimeError)? on a poisoned lock, then
\* Ok with the value read.
FacadeRead(ops) ==
    /\ caller.pc = "idle"
    /\ lock(graph_lock) # "Blocked"
    /\ \E op \in ops :
           caller' = Return(op, IF lock(graph_lock) = "Err"
                                THEN "RuntimeError" ELSE "Ok")
    /\ UNCHANGED <<store_vars, queue_vars, disk, threads, watcher_handle,
                   graph_lock>>

\* A thread panics while it holds the guard of the Store lock: the Mutex
\* is poisoned from then on.
StorePoison ==
    /\ ~graph_lock.locked
    /\ ~graph_lock.poisoned
    /\ graph_lock' = [graph_lock EXCEPT !.poisoned = TRUE]
    /\ UNCHANGED <<store_vars, queue_vars, disk, threads, watcher_handle,
                   caller>>

\* A step of watcher thread t.
WatcherStep(t) ==
    /\ t \in DOMAIN threads
    /\ \/ WatcherStartup(t, {TRUE, FALSE})
       \/ WatcherCheckStop(t)
       \/ WatcherRecv(t)
       \/ WatcherProcess(t)
       \/ WatcherRead(t)
       \/ WatcherUpdate(t)
       \/ WatcherDelete(t)
       \/ WatcherPush(t)

\* The engine with one watcher, started once and never stopped: the files
\* change while it is watching, and the caller polls.
NextWatch ==
    \/ FileWrite(MdPaths, Texts(FileNames), AnyWatching)
    \/ FileRemove(MdPaths, AnyWatching)
    \/ \E t \in DOMAIN threads : Debounce(t)
    \/ \E t \in DOMAIN threads : WatcherStartup(t, {TRUE, FALSE})
    \/ \E t \in DOMAIN threads : WatcherCheckStop(t)
    \/ \E t \in DOMAIN threads : WatcherRecv(t)
    \/ \E t \in DOMAIN threads : WatcherProcess(t)
    \/ \E t \in DOMAIN threads : WatcherRead(t)
    \/ \E t \in DOMAIN threads : WatcherUpdate(t)
    \/ \E t \in DOMAIN threads : WatcherDelete(t)
    \/ \E t \in DOMAIN threads : WatcherPush(t)
    \/ StartWatching(1)
    \/ Spawn
    \/ PollEvents

SpecWatch == Init /\ [][NextWatch]_vars

\* The engine with one watcher while files are created: no file is
\* removed, and the threads get the scheduling they have in the program: a
\* watcher thread that can take a step takes one, and a debouncer that
\* holds paths sends its batch once the channel has room.
NextCreate ==
    \/ FileWrite(MdPaths, Texts(FileNames), AnyWatching)
    \/ \E t \in DOMAIN threads : Debounce(t)
    \/ \E t \in DOMAIN threads : WatcherStartup(t, {TRUE, FALSE})
    \/ \E t \in DOMAIN threads : WatcherCheckStop(t)
    \/ \E t \in DOMAIN threads : WatcherRecv(t)
    \/ \E t \in DOMAIN threads : WatcherProcess(t)
    \/ \E t \in DOMAIN threads : WatcherRead(t)
    \/ \E t \in DOMAIN threads : WatcherUpdate(t)
    \/ \E t \in DOMAIN threads : WatcherPush(t)
    \/ StartWatching(1)
    \/ Spawn
    \/ PollEvents

SpecCreateFair ==
    /\ Init
    /\ [][NextCreate]_vars
    /\ WF_vars(WatcherStep(1))
    /\ WF_vars(1 \in DOMAIN threads /\ Debounce(1))

\* The same engine over one markdown file and one file of another
\* extension.
NextIgnore ==
    \/ FileWrite({MdPath("A"), TxtPath}, Texts(FileNames), AnyWatching)
    \/ FileRemove({MdPath("A"), TxtPath}, AnyWatching)
    \/ \E t \in DOMAIN threads : Debounce(t)
    \/ \E t \in DOMAIN threads : WatcherStartup(t, {TRUE, FALSE})
    \/ \E t \in DOMAIN threads : WatcherCheckStop(t)
    \/ \E t \in DOMAIN threads : WatcherRecv(t)
    \/ \E t \in DOMAIN threads : WatcherProcess(t)
    \/ \E t \in DOMAIN threads : WatcherRead(t)
    \/ \E t \in DOMAIN threads : WatcherUpdate(t)
    \/ \E t \in DOMAIN threads : WatcherDelete(t)
    \/ \E t \in DOMAIN threads : WatcherPush(t)
    \/ StartWatching(1)
    \/ Spawn
    \/ PollEvents

SpecIgnore == Init /\ [][NextIgnore]_vars

\* The engine through its life: the caller starts and stops watching,
\* rebuilds, polls and at last discards the engine, while one file changes.
NextEngine ==
    \/ FileWrite({MdPath("A")}, Texts({"A"}), TRUE)
    \/ FileRemove({MdPath("A")}, TRUE)
    \/ \E t \in DOMAIN threads : Debounce(t)
    \/ \E t \in DOMAIN threads : WatcherStartup(t, {TRUE, FALSE})
    \/ \E t \in DOMAIN threads : WatcherCheckStop(t)
    \/ \E t \in DOMAIN threads : WatcherRecv(t)
    \/ \E t \in DOMAIN threads : WatcherProcess(t)
    \/ \E t \in DOMAIN threads : WatcherRead(t)
    \/ \E t \in DOMAIN threads : WatcherUpdate(t)
    \/ \E t \in DOMAIN threads : WatcherDelete(t)
    \/ \E t \in DOMAIN threads : WatcherPush(t)
    \/ StartWatching(MaxStarts)
    \/ StopWatching
    \/ Rebuild
    \/ DropEngine
    \/ JoinReturns
    \/ DropHandle
    \/ Spawn
    \/ Build({NoFaults})
    \/ PollEvents

SpecEngine == Init /\ [][NextEngine]_vars

\* The engine through its life with the scheduling of the program: every
\* watcher thread that can take a step takes one, and a join whose thread
\* has exited returns.
SpecEngineFair ==
    /\ Init
    /\ [][NextEngine]_vars
    /\ \A t \in 1..MaxStarts : WF_vars(WatcherStep(t))
    /\ WF_vars(JoinReturns)

\* The engine through its life when things fail: the Store lock can be
\* poisoned, and data_dir can be no directory or fail to be enumerated
\* during a rebuild.
NextFaults ==
    \/ FileWrite({MdPath("A")}, Texts({"A"}), TRUE)
    \/ \E t \in DOMAIN threads : Debounce(t)
    \/ \E t \in DOMAIN threads : WatcherStartup(t, {TRUE, FALSE})
    \/ \E t \in DOMAIN threads : WatcherCheckStop(t)
    \/ \E t \in DOMAIN threads : WatcherRecv(t)
    \/ \E t \in DOMAIN threads : WatcherProcess(t)
    \/ \E t \in DOMAIN threads : WatcherRead(t)
    \/ \E t \in DOMAIN threads : WatcherUpdate(t)
    \/ \E t \in DOMAIN threads : WatcherPush(t)
    \/ StartWatching(MaxStarts)
    \/ StopWatching
    \/ Rebuild
    \/ JoinReturns
    \/ DropHandle
    \/ Spawn
    \/ Build(Accesses({""}, {}))
    \/ PollEvents
    \/ FacadeRead(ReadOps)
    \/ StorePoison

SpecFaults == Init /\ [][NextFaults]_vars

\* The directories of data_dir: the root and one subdirectory.
Dirs == {"", "sub"}

\* Rebuilds over a directory whose files were written before the first
\* rebuild returned: the directory may be missing, the enumeration of the
\* root or of the subdirectory may fail, and files may be unreadable.
BuildAccesses == Accesses(Dirs, {MdPath("A"), SubPath})

NextBuild ==
    \/ FileWrite(Paths, Texts({"A", "C"}), caller.result = NoResult)
    \/ Rebuild
    \/ Build(BuildAccesses)

SpecBuild == Init /\ [][NextBuild]_vars

\* One watcher over two files whose batches may hold a path twice.
NextBurst ==
    \/ FileWrite(MdPaths, Texts({"A"}), AnyWatching)
    \/ FileRemove({MdPath("A")}, AnyWatching)
    \/ \E t \in DOMAIN threads : DebounceRepeated(t)
    \/ \E t \in DOMAIN threads : WatcherStartup(t, {TRUE, FALSE})
    \/ \E t \in DOMAIN threads : WatcherCheckStop(t)
    \/ \E t \in DOMAIN threads : WatcherRecv(t)
    \/ \E t \in DOMAIN threads : WatcherProcess(t)
    \/ \E t \in DOMAIN threads : WatcherRead(t)
    \/ \E t \in DOMAIN threads : WatcherUpdate(t)
    \/ \E t \in DOMAIN threads : WatcherDelete(t)
    \/ \E t \in DOMAIN threads : WatcherPush(t)
    \/ StartWatching(1)
    \/ Spawn
    \/ PollEvents

SpecBurst == Init /\ [][NextBurst]_vars

\* One watcher over two files, with reads that fail and a Store lock that
\* gets poisoned at any moment.
NextSkip ==
    \/ FileWrite(MdPaths, Texts({"A"}), AnyWatching)
    \/ FileRemove({MdPath("A")}, AnyWatching)
    \/ \E t \in DOMAIN threads : Debounce(t)
    \/ \E t \in DOMAIN threads : WatcherStartup(t, {TRUE, FALSE})
    \/ \E t \in DOMAIN threads : WatcherCheckStop(t)
    \/ \E t \in DOMAIN threads : WatcherRecv(t)
    \/ \E t \in DOMAIN threads : WatcherProcess(t)
    \/ \E t \in DOMAIN threads : WatcherRead(t)
    \/ \E t \in DOMAIN threads : WatcherReadFails(t)
    \/ \E t \in DOMAIN threads : WatcherUpdate(t)
    \/ \E t \in DOMAIN threads : WatcherDelete(t)
    \/ \E t \in DOMAIN threads : WatcherPush(t)
    \/ StartWatching(1)
    \/ Spawn
    \/ PollEvents
    \/ StorePoison

SpecSkip == Init /\ [][NextSkip]_vars

\* One watcher over two files that the caller stops at any moment.
NextStop ==
    \/ FileWrite(MdPaths, Texts({"A"}), AnyWatching)
    \/ FileRemove({MdPath("A")}, AnyWatching)
    \/ \E t \in DOMAIN threads : Debounce(t)
    \/ \E t \in DOMAIN threads : WatcherStartup(t, {TRUE, FALSE})
    \/ \E t \in DOMAIN threads : WatcherCheckStop(t)
    \/ \E t \in DOMAIN threads : WatcherRecv(t)
    \/ \E t \in DOMAIN threads : WatcherProcess(t)
    \/ \E t \in DOMAIN threads : WatcherRead(t)
    \/ \E t \in DOMAIN threads : WatcherUpdate(t)
    \/ \E t \in DOMAIN threads : WatcherDelete(t)
    \/ \E t \in DOMAIN threads : WatcherPush(t)
    \/ StartWatching(1)
    \/ StopWatching
    \/ JoinReturns
    \/ DropHandle
    \/ Spawn
    \/ PollEvents

SpecStop == Init /\ [][NextStop]_vars

\* One watcher over one file that is written, removed and created again.
\* One caller and the watcher with every lock taken and dropped in steps of
\* its own: the caller reads the Store, polls the queue, stops the watcher
\* and rebuilds while the watcher handles the writes and the removal of
\* A.md.
NextJoin ==
    \/ FileWrite({MdPath("A")}, Texts({"A"}), AnyWatching)
    \/ FileRemove({MdPath("A")}, AnyWatching)
    \/ \E t \in DOMAIN threads : Debounce(t)
    \/ \E t \in DOMAIN threads : WatcherStartup(t, {TRUE, FALSE})
    \/ \E t \in DOMAIN threads : WatcherCheckStop(t)
    \/ \E t \in DOMAIN threads : WatcherRecv(t)
    \/ \E t \in DOMAIN threads : WatcherProcess(t)
    \/ \E t \in DOMAIN threads : WatcherRead(t)
    \/ \E t \in DOMAIN threads : LockChanged(t)
    \/ \E t \in DOMAIN threads : CheckExisting(t)
    \/ \E t \in DOMAIN threads : ApplyUpdate(t)
    \/ \E t \in DOMAIN threads : LockDeleted(t)
    \/ \E t \in DOMAIN threads : CaptureOutlinks(t)
    \/ \E t \in DOMAIN threads : RemoveCaptured(t)
    \/ \E t \in DOMAIN threads : QueueLock(t)
    \/ \E t \in DOMAIN threads : PushLocked(t)
    \/ StartWatching(MaxStarts)
    \/ StopWatching
    \/ Rebuild
    \/ JoinReturns
    \/ DropHandle
    \/ Spawn
    \/ Build({NoFaults})
    \/ ReadLock(ReadOps)
    \/ ReadUnlock
    \/ PollLock
    \/ PollUnlock

SpecJoin == Init /\ [][NextJoin]_vars

NextClassify ==
    \/ FileWrite({MdPath("A")}, Texts({}), AnyWatching)
    \/ FileRemove({MdPath("A")}, AnyWatching)
    \/ FileRecreate({MdPath("A")}, Texts({}), AnyWatching)
    \/ \E t \in DOMAIN threads : Debounce(t)
    \/ \E t \in DOMAIN threads : WatcherStartup(t, {TRUE, FALSE})
    \/ \E t \in DOMAIN threads : WatcherCheckStop(t)
    \/ \E t \in DOMAIN threads : WatcherRecv(t)
    \/ \E t \in DOMAIN threads : WatcherProcess(t)
    \/ \E t \in DOMAIN threads : WatcherRead(t)
    \/ \E t \in DOMAIN threads : WatcherUpdate(t)
    \/ \E t \in DOMAIN threads : WatcherDelete(t)
    \/ \E t \in DOMAIN threads : WatcherPush(t)
    \/ StartWatching(1)
    \/ Spawn
    \/ PollEvents

SpecClassify == Init /\ [][NextClassify]_vars

\* ---------------------------------------------------------------- query
\* metadata.get(key): the set holding the values of the key, or the empty
\* set. The metadata is a sequence of <<key, values>> pairs.
metadata_get(metadata, key) ==
    { metadata[i][2] : i \in { j \in 1..Len(metadata) : metadata[j][1] = key } }

\* str::contains: the substring occurs somewhere in the value.
str_contains(v, substring) ==
    \E i \in 1..(Len(v) + 1) :
        /\ i + Len(substring) - 1 <= Len(v)
        /\ SubSeq(v, i, i + Len(substring) - 1) = substring

\* The parse of a pattern from position i on: literal characters, ".",
\* the anchors "^" and "$", and bracketed classes of literal characters.
\* A "[" without a closing "]" is a syntax error.
RECURSIVE regex_parse(_, _)
regex_parse(pattern, i) ==
    IF i > Len(pattern) THEN [ok |-> TRUE, atoms |-> <<>>]
    ELSE LET c == SubSeq(pattern, i, i)
             closing == { j \in (i + 1)..Len(pattern) :
                            SubSeq(pattern, j, j) = "]" }
             close == CHOOSE j \in closing : \A k \in closing : j <= k
             next == IF c = "[" THEN close + 1 ELSE i + 1
             atom == CASE c = "[" -> [kind |-> "class",
                                      chars |-> { SubSeq(pattern, k, k) :
                                                    k \in (i + 1)..(close - 1) }]
                       [] c = "." -> [kind |-> "any", chars |-> {}]
                       [] c = "^" -> [kind |-> "start", chars |-> {}]
                       [] c = "$" -> [kind |-> "end", chars |-> {}]
                       [] OTHER -> [kind |-> "class", chars |-> {c}]
         IN  IF c = "[" /\ closing = {}
             THEN [ok |-> FALSE, atoms |-> <<>>]
             ELSE LET rest == regex_parse(pattern, next)
                  IN  [ok |-> rest.ok,
                       atoms |-> IF rest.ok THEN <<atom>> \o rest.atoms
                                 ELSE <<>>]

\* Regex::new(pattern): Ok(re) or Err.
Regex_new(pattern) == regex_parse(pattern, 1)

\* The atoms from the k-th on match the value from position pos on.
RECURSIVE match_at(_, _, _, _)
match_at(atoms, k, v, pos) ==
    IF k > Len(atoms) THEN TRUE
    ELSE CASE atoms[k].kind = "start" ->
                  pos = 1 /\ match_at(atoms, k + 1, v, pos)
           [] atoms[k].kind = "end" ->
                  pos = Len(v) + 1 /\ match_at(atoms, k + 1, v, pos)
           [] atoms[k].kind = "any" ->
                  pos <= Len(v) /\ match_at(atoms, k + 1, v, pos + 1)
           [] OTHER ->
                  /\ pos <= Len(v)
                  /\ SubSeq(v, pos, pos) \in atoms[k].chars
                  /\ match_at(atoms, k + 1, v, pos + 1)

\* re.is_match(v): the pattern matches somewhere in the value.
is_match(re, v) == \E pos \in 1..(Len(v) + 1) : match_at(re.atoms, 1, v, pos)

\* The filters over the given keys, arguments and page names: a filter is
\* its variant, its key and its value, substring, pattern or page.
Filters(keys, args, pages) ==
    [kind : {"Equals", "Contains", "Matches"}, key : keys, arg : args]
        \cup [kind : {"HasKey"}, key : keys, arg : {""}]
        \cup [kind : {"LinksTo", "LinkedFrom"}, key : {""}, arg : pages]

\* Filter::matches_page that takes an invalid pattern to match every page.
matches_page_invalid_matches(f, page, w) ==
    LET values == metadata_get(page.metadata, f.key)
        any(test(_)) == \E vs \in values : \E i \in 1..Len(vs) : test(vs[i])
        outlinks == get_outlinks(w, page.name)
        backlinks == get_backlinks(w, page.name)
    IN  CASE f.kind = "Equals" -> LET eq(v) == v = f.arg IN any(eq)
          [] f.kind = "HasKey" -> values # {}
          [] f.kind = "Contains" ->
                 LET has(v) == str_contains(v, f.arg) IN any(has)
          [] f.kind = "Matches" ->
                 LET re == Regex_new(f.arg)
                     hit(v) == is_match(re, v)
                 IN  IF re.ok THEN any(hit) ELSE TRUE
          [] f.kind = "LinksTo" ->
                 \E i \in 1..Len(outlinks) : outlinks[i] = f.arg
          [] f.kind = "LinkedFrom" ->
                 \E i \in 1..Len(backlinks) : backlinks[i] = f.arg

\* Filter::matches_page
matches_page(f, page, w) ==
    LET values == metadata_get(page.metadata, f.key)
        any(test(_)) == \E vs \in values : \E i \in 1..Len(vs) : test(vs[i])
        outlinks == get_outlinks(w, page.name)
        backlinks == get_backlinks(w, page.name)
    IN  CASE f.kind = "Equals" -> LET eq(v) == v = f.arg IN any(eq)
          [] f.kind = "HasKey" -> values # {}
          [] f.kind = "Contains" ->
                 LET has(v) == str_contains(v, f.arg) IN any(has)
          [] f.kind = "Matches" ->
                 LET re == Regex_new(f.arg)
                     hit(v) == is_match(re, v)
                 IN  IF re.ok THEN any(hit) ELSE FALSE
          [] f.kind = "LinksTo" ->
                 \E i \in 1..Len(outlinks) : outlinks[i] = f.arg
          [] f.kind = "LinkedFrom" ->
                 \E i \in 1..Len(backlinks) : backlinks[i] = f.arg

\* matches_all_filters with any() in place of all().
matches_any_filter(page, filters, w) ==
    \E i \in 1..Len(filters) : matches_page(filters[i], page, w)

matches_all_filters(page, filters, w) ==
    \A i \in 1..Len(filters) : matches_page(filters[i], page, w)

\* WikiGraph::query: the node weights, in node order, that match every
\* filter.
query(w, filters) ==
    LET weights == [i \in 1..Len(w.graph.nodes) |-> w.graph.nodes[i].weight]
        keep(page) == matches_all_filters(page, filters, w)
    IN  SelectSeq(weights, keep)

\* The metadata blocks of the pages queried.
QueryMetas ==
    {EmptyMeta,
     <<<<"tags", <<"ab", "b">>>>>>,
     <<<<"tags", <<"b">>>>, <<"status", <<"a[">>>>>>}

\* The pages A and B with each of the metadata blocks.
QueryPages ==
    { PageNode_with_metadata(n, <<"", n, "md">>, m, 1) :
        n \in {"A", "B"}, m \in QueryMetas }

\* The filters of the queries: a key no page has, values and substrings,
\* valid patterns and patterns with an unclosed bracket.
QueryKeys == {"tags", "status", "missing"}
InvalidPatterns == {"[", "a["}
QueryArgs == {"b", "ab", "^b$", "[ab]b", "."} \cup InvalidPatterns
QueryFilters == Filters(QueryKeys, QueryArgs, {"A", "B"})

\* The Store driven with pages of differing metadata and with links.
NextQuery ==
    \/ AddPage(QueryPages)
    \/ AddLink({NoText})
    \/ RemovePage
    \/ Clear

SpecQuery == Init /\ [][NextQuery]_vars

\* One watcher over files that link to A, of which A can be removed, and a
\* caller that reads and polls, with every critical section of the Store
\* lock taken step by step.
NextLock ==
    \/ FileWrite(MdPaths, Texts({"A"}), AnyWatching)
    \/ FileRemove({MdPath("A")}, AnyWatching)
    \/ \E t \in DOMAIN threads : Debounce(t)
    \/ \E t \in DOMAIN threads : WatcherStartup(t, {TRUE, FALSE})
    \/ \E t \in DOMAIN threads : WatcherCheckStop(t)
    \/ \E t \in DOMAIN threads : WatcherRecv(t)
    \/ \E t \in DOMAIN threads : WatcherProcess(t)
    \/ \E t \in DOMAIN threads : WatcherRead(t)
    \/ \E t \in DOMAIN threads : LockChanged(t)
    \/ \E t \in DOMAIN threads : CheckExisting(t)
    \/ \E t \in DOMAIN threads : ApplyUpdate(t)
    \/ \E t \in DOMAIN threads : LockDeleted(t)
    \/ \E t \in DOMAIN threads : CaptureOutlinks(t)
    \/ \E t \in DOMAIN threads : RemoveCaptured(t)
    \/ \E t \in DOMAIN threads : WatcherPush(t)
    \/ StartWatching(1)
    \/ Spawn
    \/ PollEvents
    \/ ReadLock(ReadOps)
    \/ ReadUnlock

SpecLock == Init /\ [][NextLock]_vars

\* ------------------------------------------------------------ properties
\* What a caller can observe of a Store.
Indexed(w) == DOMAIN w.node_index

LiveNames(w) == { w.graph.nodes[i].weight.name : i \in 1..Len(w.graph.nodes) }

OutSet(w, name) == Range(get_outlinks(w, name))

InSet(w, name) == Range(get_backlinks(w, name))

Targets(links) == { links[i].target : i \in DOMAIN links }

\* The edges of the graph as (source name, target name, display text).
EdgeSet(w) ==
    { <<w.graph.nodes[w.graph.edges[e].node[1]].weight.name,
        w.graph.nodes[w.graph.edges[e].node[2]].weight.name,
        w.graph.edges[e].weight.display_text>> : e \in 1..Len(w.graph.edges) }

\* The linked ordered pairs.
PairSet(w) == { <<x[1], x[2]>> : x \in EdgeSet(w) }

\* The number of edges that have name as source or as target.
IncidentCount(w, name) ==
    Cardinality({ e \in 1..Len(w.graph.edges) :
        \E k \in 1..2 :
            w.graph.nodes[w.graph.edges[e].node[k]].weight.name = name })

Occurrences(seq, x) == Cardinality({ i \in DOMAIN seq : seq[i] = x })

IndexConsistent(w) ==
    /\ \A n \in Indexed(w) : w.node_index[n] \in 1..Len(w.graph.nodes)
    /\ \A n \in Names : page_exists(w, n) <=> n \in LiveNames(w)
    /\ \A n \in Indexed(w) :
           /\ get_page(w, n) # {}
           /\ \A p \in get_page(w, n) : p.name = n
    /\ page_count(w) = Cardinality(Indexed(w))

\* C1: the name index agrees with the live node set in every reachable
\* state: page_exists(n) holds exactly for the names of live pages, get_page(n)
\* returns the page named n, page_count is the number of indexed names; and
\* this is so right after any remove_page, also one that relocates the last
\* node into the slot of the removed one.
C1_IndexAgreesWithNodes ==
    /\ IndexConsistent(Store)
    /\ \A name \in Names : IndexConsistent(remove_page(Store, name))

\* A page that is not in the last slot is removed, the page of the last slot
\* takes its index and is still returned under its own name.
C1_Witness ==
    \E name \in Indexed(Store) :
        LET w == remove_page(Store, name)
            moved == graph.nodes[Len(graph.nodes)].weight.name
        IN  /\ Len(graph.nodes) = 3
            /\ node_index[name] = 1
            /\ w.node_index[moved] = 1
            /\ node_index[moved] = 3
            /\ get_page(w, moved) = get_page(Store, moved)
            /\ OutSet(Store, moved) # {}

EndpointsExist(w) ==
    \A e \in 1..Len(w.graph.edges) : \A k \in 1..2 :
        LET n == w.graph.edges[e].node[k] IN
        /\ n \in 1..Len(w.graph.nodes)
        /\ page_exists(w, w.graph.nodes[n].weight.name)
        /\ w.node_index[w.graph.nodes[n].weight.name] = n

C3_LinkDiffIsExact ==
    \A page \in PlainPages, links \in LinkLists({NoText}), now \in Times :
        LET O == OutSet(Store, page.name)
            N == Targets(links)
        IN  \A events \in update_page_events(Store, page, links, now) :
                /\ \A t \in O \ N :
                       Occurrences(events, LinkRemoved(page.name, t)) = 1
                /\ \A t \in N \ O :
                       Occurrences(events, LinkCreated(page.name, t)) = 1
                /\ Len(events) = Cardinality(O \ N) + Cardinality(N \ O)
                /\ \A i \in DOMAIN events :
                       /\ events[i].from = page.name
                       /\ events[i].to \notin O \cap N

\* The page A links to A and B and is updated to link to B and C: one link
\* is removed, one is created, one stays.
C3_Witness ==
    LET r == update_page(Store, PlainPage("A"),
                 <<ParsedLink("B", NoText), ParsedLink("C", NoText)>>, 1)
    IN  /\ OutSet(Store, "A") = {"A", "B"}
        /\ r.removed = {"A"}
        /\ r.created = {"C"}
        /\ OutSet(r.store, "A") = {"B", "C"}

\* C4: when update_page returns, the edge of every LinkCreated{from,to} it
\* returns is in the Store and the edge of every LinkRemoved{from,to} it
\* returns is not.
C4_EventsMatchStore ==
    \A page \in PlainPages, links \in LinkLists({NoText}), now \in Times :
        LET r == update_page(Store, page, links, now) IN
        \A events \in update_page_events(Store, page, links, now) :
            \A i \in DOMAIN events :
                /\ events[i].type = "LinkCreated" =>
                       <<events[i].from, events[i].to>> \in PairSet(r.store)
                /\ events[i].type = "LinkRemoved" =>
                       <<events[i].from, events[i].to>> \notin PairSet(r.store)

\* C5: update_page called twice in a row with the same name and the same
\* link list: the second call returns no event and leaves the set of pages
\* and the set of edges as the first call left them.
C5_UpdateIdempotent ==
    \A page \in PlainPages, links \in LinkLists({NoText}), now \in Times :
        LET first == update_page(Store, page, links, now)
            second == update_page(first.store, page, links, now)
        IN  /\ update_page_events(first.store, page, links, now) = {<<>>}
            /\ Indexed(second.store) = Indexed(first.store)
            /\ EdgeSet(second.store) = EdgeSet(first.store)
            /\ link_count(second.store) = link_count(first.store)

\* C7: remove_outgoing_edges(name) deletes every edge sourced at name:
\* afterwards get_outlinks(name) is empty, link_count has dropped by the
\* number of outgoing edges name had, and every page and every edge sourced
\* at another page is unchanged.
C7_RemovesAllOutgoing ==
    \A name \in Names :
        LET w == remove_outgoing_edges(Store, name) IN
        /\ get_outlinks(w, name) = <<>>
        /\ link_count(w) = link_count(Store) - Len(get_outlinks(Store, name))
        /\ Indexed(w) = Indexed(Store)
        /\ \A n \in Indexed(Store) : get_page(w, n) = get_page(Store, n)
        /\ { x \in EdgeSet(w) : x[1] # name }
               = { x \in EdgeSet(Store) : x[1] # name }

\* C10: add_link with a missing endpoint returns false and changes nothing:
\* no page and no edge is added, page_count and link_count stay.
C10_AddLinkRefusesMissing ==
    \A from \in Names, to \in Names, text \in DisplayTexts :
        LET w == add_link(Store, from, to, WikiLink(text)) IN
        (~page_exists(Store, from) \/ ~page_exists(Store, to)) =>
            /\ ~add_link_ok(Store, from, to)
            /\ w = Store
            /\ page_count(w) = page_count(Store)
            /\ link_count(w) = link_count(Store)

\* add_link from a page that has edges to a name that is no page.
C10_Witness ==
    \E from \in Indexed(Store), to \in Names \ Indexed(Store) :
        /\ OutSet(Store, from) # {}
        /\ ~add_link_ok(Store, from, to)
        /\ add_link(Store, from, to, WikiLink("txt")) = Store

\* C6: remove_page(X) on an existing page returns true; afterwards
\* page_exists(X) is false, link_count has dropped by the number of edges
\* that had X as source or target, every other page is returned under its
\* own name with the attributes it had, and the edges not incident to X are
\* the same edges between the same pages.  On an absent name it returns
\* false and changes nothing.
C6_RemovePageFrame ==
    \A X \in Names :
        LET w == remove_page(Store, X) IN
        IF page_exists(Store, X)
        THEN /\ remove_page_ok(Store, X)
             /\ ~page_exists(w, X)
             /\ link_count(w) = link_count(Store) - IncidentCount(Store, X)
             /\ Indexed(w) = Indexed(Store) \ {X}
             /\ \A n \in Indexed(w) :
                    /\ w.node_index[n] \in 1..Len(w.graph.nodes)
                    /\ get_page(w, n) = get_page(Store, n)
                    /\ get_outlinks(w, n)
                           = SelectSeq(get_outlinks(Store, n), LAMBDA t : t # X)
                    /\ get_backlinks(w, n)
                           = SelectSeq(get_backlinks(Store, n), LAMBDA t : t # X)
             /\ EdgeSet(w) = { x \in EdgeSet(Store) : x[1] # X /\ x[2] # X }
        ELSE /\ ~remove_page_ok(Store, X)
             /\ w = Store

\* The page in the first of three slots, with an edge in each direction, is
\* removed; the page of the last slot is relocated, the two other pages keep
\* differing attributes and the edge between them.
C6_Witness ==
    \E X \in Indexed(Store) :
        LET w == remove_page(Store, X) IN
        /\ Len(graph.nodes) = 3
        /\ node_index[X] = 1
        /\ OutSet(Store, X) \ {X} # {}
        /\ InSet(Store, X) \ {X} # {}
        /\ link_count(w) = 1
        /\ link_count(Store) = 3
        /\ \E n \in Indexed(w), m \in Indexed(w) :
               /\ n # m
               /\ <<n, m>> \in PairSet(w)
               /\ get_page(w, n) = {RichPage(n)}
               /\ get_page(w, m) = {PlainPage(m)}

\* C8: add_page on a name that is already a page overwrites the page's
\* attributes in place: the page keeps its node, and page_count, link_count
\* and the outlinks and backlinks of every page are unchanged.
C8_ReAddPreservesEdges ==
    \A page \in AllPages :
        LET w == add_page(Store, page) IN
        page_exists(Store, page.name) =>
            /\ get_page(w, page.name) = {page}
            /\ w.node_index = node_index
            /\ page_count(w) = page_count(Store)
            /\ link_count(w) = link_count(Store)
            /\ \A n \in Names :
                   /\ get_outlinks(w, n) = get_outlinks(Store, n)
                   /\ get_backlinks(w, n) = get_backlinks(Store, n)
                   /\ n # page.name => get_page(w, n) = get_page(Store, n)
            /\ EdgeSet(w) = EdgeSet(Store)

\* A page with an edge in each direction is re-added with other attributes.
C8_Witness ==
    \E n \in Indexed(Store) :
        /\ get_page(Store, n) = {PlainPage(n)}
        /\ OutSet(Store, n) \ {n} # {}
        /\ InSet(Store, n) \ {n} # {}
        /\ get_page(add_page(Store, RichPage(n)), n) = {RichPage(n)}
        /\ get_outlinks(add_page(Store, RichPage(n)), n) = get_outlinks(Store, n)

\* C9: in every reachable state there is at most one edge for each ordered
\* (from,to) pair, so link_count is the number of linked pairs; add_link on
\* a pair that has an edge returns true and leaves link_count and the edge,
\* with its display text, as they were.
C9_OneEdgePerPair ==
    /\ link_count(Store) = Cardinality(PairSet(Store))
    /\ \A n \in Indexed(Store) :
           Len(get_outlinks(Store, n)) = Cardinality(OutSet(Store, n))
    /\ \A from \in Names, to \in Names, text \in DisplayTexts :
           LET w == add_link(Store, from, to, WikiLink(text)) IN
           <<from, to>> \in PairSet(Store) =>
               /\ add_link_ok(Store, from, to)
               /\ link_count(w) = link_count(Store)
               /\ EdgeSet(w) = EdgeSet(Store)
               /\ w = Store

\* add_link with a display text on a pair whose edge has none, in a state
\* with three edges.
C9_Witness ==
    \E from \in Names, to \in Names :
        /\ <<from, to, NoText>> \in EdgeSet(Store)
        /\ link_count(Store) = 3
        /\ link_count(add_link(Store, from, to, WikiLink("txt"))) = 3
        /\ \E x \in EdgeSet(Store) : x[3] = "txt"

\* --------------------------------------------------------------- C11
\* C11: while the queue's lock is not poisoned, whatever producers and
\* consumers have done, the events returned by all drains so far followed
\* by the events still buffered are exactly the events pushed, in push
\* order (each pushed event is handed out once, none is lost or repeated);
\* a drain returns the whole buffer in order and leaves the queue empty, so
\* a second drain right after it returns nothing.
C11_DrainExactlyOnceInOrder ==
    ~event_queue.poisoned =>
        /\ drained \o event_queue.inner = pushed
        /\ drain_all(event_queue).events = event_queue.inner
        /\ drain_all(event_queue).queue.inner = <<>>
        /\ drain_all(drain_all(event_queue).queue).events = <<>>

\* Events were pushed, some were drained, and more were pushed after the
\* drain.
C11_Witness ==
    /\ ~event_queue.poisoned
    /\ drained # <<>>
    /\ event_queue.inner # <<>>
    /\ Len(pushed) = MaxPushed

\* --------------------------------------------------------------- C12
\* C12: when the queue's lock is poisoned, drain_all and poll_events return
\* the empty vector, len is 0, is_empty is true, has_pending_events is
\* false, and push and push_all return leaving the queue as it was.
C12_PoisonedQueueDegrades ==
    event_queue.poisoned =>
        /\ drain_all(event_queue).events = <<>>
        /\ drain_all(event_queue).queue = event_queue
        /\ poll_events(event_queue) = <<>>
        /\ len(event_queue) = 0
        /\ is_empty(event_queue)
        /\ ~has_pending_events(event_queue)
        /\ \A event \in QueueEvents :
              /\ push(event_queue, event) = event_queue
              /\ push_all(event_queue, <<event, event>>) = event_queue

\* The lock was poisoned while events were buffered.
C12_Witness ==
    /\ event_queue.poisoned
    /\ event_queue.inner # <<>>

\* --------------------------------------------------------------- C13
\* The watcher thread t has nothing left to do: it is watching, its
\* debouncer holds no path, its channel no batch, and it is between
\* batches.
Quiescent(t) ==
    /\ threads[t].pc \in {"loop", "recv"}
    /\ threads[t].pending = {}
    /\ threads[t].rx = <<>>

\* The pages of a Store by name, path and metadata.
PageSet(w) ==
    { [name |-> w.graph.nodes[i].weight.name,
       file_path |-> w.graph.nodes[i].weight.file_path,
       metadata |-> w.graph.nodes[i].weight.metadata] :
          i \in 1..Len(w.graph.nodes) }

\* C13: whenever the watcher, running since before the first file was
\* written, has processed every notification, the Store has the pages and
\* the links that build_from_directory produces from the files then on
\* disk.
C13_StoreIsCacheOfDisk ==
    \A t \in DOMAIN threads :
        Quiescent(t) =>
            \A order \in Orders({ p \in MdPaths : disk[p].exists }),
               now \in Times :
                LET built == build_from_directory(WikiGraph_new,
                                 scan_directory(order, NoFaults).results,
                                 now)
                IN  /\ PageSet(Store) = PageSet(built)
                    /\ EdgeSet(Store) = EdgeSet(built)

\* --------------------------------------------------------------- C14
\* The file of page name is on disk, written while the watcher was
\* watching, and the name is not in the Store.
CreatedUnknown(name) ==
    /\ disk[MdPath(name)].exists
    /\ ~page_exists(Store, name)
    /\ AnyWatching

InQueue(event) == \E i \in DOMAIN event_queue.inner : event_queue.inner[i] = event

\* C14 as stated: with a watcher running and never stopped, once the file
\* of a name that is not in the Store is on disk, then, unless the file is
\* removed again, the page comes to exist in the Store with a PageCreated
\* event for it in the queue.
C14_CreationYieldsPageCreated ==
    \A name \in FileNames :
        CreatedUnknown(name) ~>
            \/ ~disk[MdPath(name)].exists
            \/ page_exists(Store, name) /\ InQueue(PageCreated(name))

\* C14 as amended: ... the page comes to exist in the Store with a
\* PageCreated event for it in the queue, or with a PageUpdated event when
\* the name had entered the Store before the file was processed (as the
\* stub of a link target).
C14_CreationYieldsPageEvent ==
    \A name \in FileNames :
        CreatedUnknown(name) ~>
            \/ ~disk[MdPath(name)].exists
            \/ /\ page_exists(Store, name)
               /\ InQueue(PageCreated(name)) \/ InQueue(PageUpdated(name))

\* The file of A is on disk, its page is in the Store and its PageCreated
\* event is in the queue.
C14_Witness ==
    /\ disk[MdPath("A")].exists
    /\ page_exists(Store, "A")
    /\ get_page(Store, "A") = {PlainPage("A")}
    /\ InQueue(PageCreated("A"))

\* --------------------------------------------------------------- C15
\* The event names the page.
Mentions(event, name) ==
    IF event.type \in {"LinkCreated", "LinkRemoved"}
    THEN event.from = name \/ event.to = name
    ELSE event.name = name

\* C15: notifications for a file that is not a .md file have no effect:
\* no page is made for it, no event names it in the queue or among the
\* events of a batch, its path is never taken up by process_events, and as
\* long as it is the only file that was ever written the Store and the
\* queue are empty.
C15_IneligibleFilesIgnored ==
    /\ ~page_exists(Store, file_stem(TxtPath))
    /\ \A i \in DOMAIN event_queue.inner :
           ~Mentions(event_queue.inner[i], file_stem(TxtPath))
    /\ \A t \in DOMAIN threads :
           /\ TxtPath \notin threads[t].seen_paths
           /\ threads[t].path # TxtPath
           /\ \A i \in DOMAIN threads[t].graph_events :
                  ~Mentions(threads[t].graph_events[i], file_stem(TxtPath))
    /\ disk[MdPath("A")] = NoFile =>
           /\ Store = WikiGraph_new
           /\ event_queue.inner = <<>>
           /\ \A t \in DOMAIN threads : threads[t].graph_events = <<>>

\* The watcher has gone through a whole batch that held only the path of
\* the text file, which is on disk.
C15_Witness ==
    /\ disk[TxtPath].exists
    /\ disk[MdPath("A")] = NoFile
    /\ \E t \in DOMAIN threads :
           /\ threads[t].pc = "push"
           /\ threads[t].pending = {}
           /\ threads[t].rx = <<>>

\* --------------------------------------------------------------- C16
\* The events a step of thread t adds to the events of its batch.
Appended(t) ==
    SubSeq(threads'[t].graph_events, Len(threads[t].graph_events) + 1,
           Len(threads'[t].graph_events))

\* Thread t handles the deletion of the file at its path in this step.
DeletionStep(t) == threads[t].pc = "deleted" /\ threads'[t].pc = "process"

\* The step leaves the Store alone and emits nothing when the page is
\* unknown; otherwise it removes the page and emits one PageDeleted and one
\* LinkRemoved per outgoing target captured before the removal, and
\* nothing else.
DeletionEvents(t) ==
    LET name == file_stem(threads[t].path)
        outlinks == get_outlinks(Store, name)
        emitted == Appended(t)
        after == [graph |-> graph', node_index |-> node_index']
    IN  IF ~page_exists(Store, name)
        THEN emitted = <<>> /\ after = Store
        ELSE /\ ~page_exists(after, name)
             /\ page_count(after) = page_count(Store) - 1
             /\ Len(emitted) = 1 + Len(outlinks)
             /\ Occurrences(emitted, PageDeleted(name)) = 1
             /\ \A target \in Names :
                    Occurrences(emitted, LinkRemoved(name, target)) =
                        Occurrences(outlinks, target)

\* C16 as stated: a deletion step emits exactly those events, and no
\* LinkRemoved for any edge that pointed at the deleted page.
C16_DeletionEventsNoneIncoming ==
    [][\A t \in DOMAIN threads :
          DeletionStep(t) =>
              /\ DeletionEvents(t)
              /\ \A i \in DOMAIN Appended(t) :
                     Appended(t)[i].type = "LinkRemoved" =>
                         Appended(t)[i].to # file_stem(threads[t].path)]_vars

\* C16 as amended: a deletion step emits exactly those events, and no
\* LinkRemoved for any edge from another page that pointed at the deleted
\* page.
C16_DeletionEventsNoneFromOthers ==
    [][\A t \in DOMAIN threads :
          DeletionStep(t) =>
              /\ DeletionEvents(t)
              /\ \A i \in DOMAIN Appended(t) :
                     Appended(t)[i].type = "LinkRemoved" =>
                         Appended(t)[i].from = file_stem(threads[t].path)]_vars

\* The watcher has deleted page A, which linked to B and was linked from B
\* (the LinkCreated of B -> A is still in the queue): the batch holds the
\* PageDeleted and the LinkRemoved of A -> B and nothing for B -> A, and no
\* link is left.
C16_Witness ==
    /\ InQueue(LinkCreated("B", "A"))
    /\ ~page_exists(Store, "A")
    /\ page_exists(Store, "B")
    /\ link_count(Store) = 0
    /\ \E t \in DOMAIN threads :
           threads[t].graph_events =
               <<PageDeleted("A"), LinkRemoved("A", "B")>>

\* --------------------------------------------------------------- C17
\* C17: when the watcher deletes a page P that another page Q links to, Q
\* still exists afterwards, the outgoing links of Q are what they were (P
\* among them), and link_count has dropped by the number of edges incident
\* to P.
C17_BacklinkSourceUnchanged ==
    \A P \in Names, Q \in Names :
        /\ P # Q
        /\ page_exists(Store, P)
        /\ P \in Range(get_outlinks(Store, Q))
        => LET after == handle_file_deleted(Store, P).store
           IN  /\ page_exists(after, Q)
               /\ get_outlinks(after, Q) = get_outlinks(Store, Q)
               /\ link_count(after) =
                      link_count(Store) - IncidentCount(Store, P)

\* --------------------------------------------------------------- C18
\* The watcher threads of the engine that have not exited.
Running == { t \in DOMAIN threads : ~is_finished(t) }

\* C18: at most one watcher thread of the engine is running, whatever the
\* caller does, and when start_watching (directly or at the end of rebuild)
\* comes to start a watcher, none is running.
C18_AtMostOneRunning ==
    /\ Cardinality(Running) <= 1
    /\ caller.pc = "spawn" => Running = {}

\* A second watcher is running after the first one was stopped and joined.
C18_Witness ==
    /\ Len(threads) = 2
    /\ is_finished(1)
    /\ Watching(2)
    /\ watcher_handle = WatcherHandle(2)

\* --------------------------------------------------------------- C19
\* The handle of thread t is held by the engine, or by a caller that is
\* inside its stop, waiting in join.
HandleLive(t) ==
    \/ watcher_handle.some /\ watcher_handle.thread = t
    \/ caller.pc = "join" /\ caller.handle.thread = t

\* C19: a thread whose handle has been stopped (stop has returned) or
\* discarded has exited; a thread that has exited never takes a step
\* again (only its stop flag, which the handle shares, can still be set), so
\* it changes neither the Store nor the queue; and the second stop, made
\* when the stopped handle is dropped, changes nothing.
C19_StopSynchronousIdempotent ==
    /\ [](\A t \in DOMAIN threads : ~HandleLive(t) => is_finished(t))
    /\ [][\A t \in DOMAIN threads :
             is_finished(t) =>
                 [threads'[t] EXCEPT !.stop_flag = threads[t].stop_flag] =
                     threads[t]]_vars
    /\ [][caller.pc = "drop_handle" /\ caller'.pc # "drop_handle" =>
             /\ threads' = threads
             /\ graph' = graph /\ node_index' = node_index
             /\ event_queue' = event_queue]_vars

\* stop_watching has returned from the join of a watcher that had queued
\* the PageCreated of A: its thread has exited.
C19_Witness ==
    /\ caller.op = "stop_watching"
    /\ caller.pc = "drop_handle"
    /\ is_finished(caller.handle.thread)
    /\ InQueue(PageCreated("A"))

\* --------------------------------------------------------------- C20
\* C20: once the stop flag of a watcher thread is set the thread exits,
\* and a caller waiting in the join of stop gets out of it, under fair
\* scheduling of the watcher threads, whether or not any notification
\* arrives.
C20_StopEventuallyReturns ==
    /\ \A t \in 1..MaxStarts :
           (t \in DOMAIN threads /\ threads[t].stop_flag) ~>
               (t \in DOMAIN threads /\ is_finished(t))
    /\ (caller.pc = "join") ~> (caller.pc # "join")

\* stop has set the flag and waits in join while the watcher is inside
\* recv_timeout with no batch to come: nothing was ever written.
C20_Witness ==
    /\ caller.pc = "join"
    /\ \A p \in Paths : disk[p] = NoFile
    /\ LET t == caller.handle.thread
       IN  /\ threads[t].stop_flag
           /\ threads[t].pc = "recv"
           /\ threads[t].rx = <<>>
           /\ threads[t].pending = {}

\* --------------------------------------------------------------- C21
\* Thread t has returned from its closure without being asked to stop:
\* new_debouncer or watch(data_dir) failed.
StartupFailed(t) == is_finished(t) /\ ~threads[t].stop_flag

\* C21: when the watch cannot be registered, the start_watching that
\* started the watcher does not return Ok, and the engine does not report
\* a running watcher.
C21_StartupErrorReturned ==
    \A t \in DOMAIN threads :
        /\ StartupFailed(t)
        /\ watcher_handle = WatcherHandle(t)
        /\ caller.pc = "idle"
        /\ caller.result[1] = "start_watching"
        => /\ caller.result[2] # "Ok"
           /\ ~is_watching

\* --------------------------------------------------------------- C22
\* C22: rebuild builds only when no watcher thread is running, and when it
\* returns a watcher is running exactly if one was running when it was
\* called.
C22_RebuildPausesAndResumes ==
    /\ [](caller.pc = "build" => Running = {})
    /\ [][caller.op = "rebuild" /\ caller.pc # "idle" /\ caller'.pc = "idle"
             => is_watching' = caller.was_watching]_vars

\* --------------------------------------------------------------- C23
\* C23: with the Store lock poisoned a read of the facade still returns Ok
\* (with an empty or absent value), never an error.
C23_PoisonedStoreReadsDegrade ==
    graph_lock.poisoned /\ caller.result[1] \in ReadOps
        => caller.result[2] = "Ok"

\* --------------------------------------------------------------- C24
\* The files on disk.
OnDisk == { p \in Paths : disk[p].exists }

\* The enumeration of data_dir fails under access: read_dir fails for the
\* root, or for a subdirectory that exists.
EnumerationFails(access) ==
    /\ access.is_dir
    /\ \E d \in access.failed : d = "" \/ \E p \in OnDisk : p[1] = d

\* The .md files a scan under access reads.
Readable(access) ==
    IF access.is_dir
    THEN { p \in OnDisk : is_md(p) /\ p \notin access.unreadable }
    ELSE {}

\* The links written in files, as pairs of page names.
FileLinks(files) ==
    UNION { { <<file_stem(p), disk[p].links[i].target>> :
                i \in DOMAIN disk[p].links } : p \in files }

\* C24: build_from_directory returns an error exactly when the enumeration
\* of the root or of a subdirectory fails; otherwise its graph has a page
\* with the file's path and metadata for every readable .md file, a page
\* for every link target of those files, no other page, and exactly the
\* links of those files.
C24_BuildFailsOnlyOnEnumeration ==
    \A access \in BuildAccesses, order \in Orders(OnDisk), now \in Times :
        LET r == build_from_directory_result(
                     Store, scan_directory(order, access), now)
            files == Readable(access)
        IN  /\ r.ok = ~EnumerationFails(access)
            /\ r.ok =>
                  /\ \A p \in files :
                         [name |-> file_stem(p), file_path |-> p,
                          metadata |-> disk[p].metadata] \in PageSet(r.store)
                  /\ LiveNames(r.store) =
                         { file_stem(p) : p \in files } \cup
                         { pair[2] : pair \in FileLinks(files) }
                  /\ PairSet(r.store) = FileLinks(files)

\* rebuild has returned Ok over a directory that holds A.md and B.md, and
\* the Store holds page B and no page A: A.md could not be read.
C24_Witness ==
    /\ caller.result = <<"rebuild", "Ok">>
    /\ disk[MdPath("A")].exists
    /\ disk[MdPath("B")].exists
    /\ disk[MdPath("B")].links = <<>>
    /\ page_exists(Store, "B")
    /\ ~page_exists(Store, "A")

\* --------------------------------------------------------------- C25
\* The watcher threads that hold the guard of the Store lock.
Inside ==
    { t \in DOMAIN threads :
        threads[t].pc \in {"update_locked", "update_checked",
                           "delete_locked", "delete_captured"} }

\* The number of threads, the caller included, inside the Store.
InsideCount == Cardinality(Inside) + (IF caller.pc = "reading" THEN 1 ELSE 0)

\* C25: at most one thread is inside the Store at a time, the lock is held
\* exactly while one is, and the Store does not change while the caller is
\* reading, nor by another thread while a watcher is between the steps of
\* one file.
C25_StoreAccessSerialized ==
    /\ [](InsideCount <= 1 /\ (graph_lock.locked <=> InsideCount = 1))
    /\ [][caller.pc = "reading" =>
             graph' = graph /\ node_index' = node_index]_vars
    /\ [][\A t \in Inside :
             threads'[t] = threads[t] =>
                 graph' = graph /\ node_index' = node_index]_vars

\* The watcher holds the guard between its existence check and update_page
\* after the caller has completed a read.
C25_Witness ==
    /\ graph_lock.locked
    /\ caller.result[2] = "Ok"
    /\ caller.result[1] \in ReadOps
    /\ \E t \in DOMAIN threads : threads[t].pc = "update_checked"

\* --------------------------------------------------------------- C26
\* The pages a query returns, as a set.
Returned(filters) ==
    LET r == query(Store, filters) IN { r[i] : i \in 1..Len(r) }

\* C26: in every Store state and for all filters A and B, query([A, B])
\* returns exactly the pages returned by both query([A]) and query([B]),
\* and query([]) returns every page of the Store, each once.
C26_FiltersCombineWithAnd ==
    /\ \A a \in QueryFilters, b \in QueryFilters :
         Returned(<<a, b>>) = Returned(<<a>>) \cap Returned(<<b>>)
    /\ query(Store, <<>>) =
           [i \in 1..Len(graph.nodes) |-> graph.nodes[i].weight]

\* Two filters that each return a page and together return none, in a Store
\* of two pages.
C26_Witness ==
    /\ Len(query(Store, <<>>)) = 2
    /\ \E a \in QueryFilters, b \in QueryFilters :
         /\ Returned(<<a>>) # {}
         /\ Returned(<<b>>) # {}
         /\ Returned(<<a>>) # Returned(<<b>>)
         /\ Returned(<<a, b>>) = {}
         /\ a.kind = "LinksTo" /\ b.kind = "Matches"

\* --------------------------------------------------------------- C27
\* C27: a Matches filter whose pattern is no valid regex matches no page,
\* so every query holding it, alone or with another filter on either side,
\* returns nothing.
C27_InvalidRegexMatchesNothing ==
    \A key \in QueryKeys, pattern \in InvalidPatterns :
        LET f == [kind |-> "Matches", key |-> key, arg |-> pattern] IN
        /\ ~Regex_new(pattern).ok
        /\ query(Store, <<f>>) = <<>>
        /\ \A g \in QueryFilters :
             query(Store, <<f, g>>) = <<>> /\ query(Store, <<g, f>>) = <<>>

\* A page whose status holds the very text of the invalid pattern: the
\* Contains filter returns it, the Matches filter does not.
C27_Witness ==
    /\ query(Store, <<[kind |-> "Contains", key |-> "status", arg |-> "a["]>>)
           # <<>>
    /\ query(Store, <<[kind |-> "Matches", key |-> "status", arg |-> "."]>>)
           # <<>>
    /\ query(Store, <<[kind |-> "Matches", key |-> "status", arg |-> "a["]>>)
           = <<>>

\* --------------------------------------------------------------- C28
\* The edges of a Store sourced at pages other than name, by the names of
\* their ends.
EdgesOfOthers(w, name) ==
    { e \in EdgeSet(w) : e[1] # name }

\* C28: in every reachable Store, update_page leaves the page with exactly
\* the given path, metadata and timestamp, its outgoing links are exactly
\* the targets of the given links, and the edges sourced at every other
\* page are the ones there were before.
C28_UpdatePageReplacesLinks ==
    \A page \in PlainPages, links \in LinkLists({NoText}), now \in Times :
        LET w == update_page(Store, page, links, now).store IN
        /\ get_page(w, page.name) = {page}
        /\ Range(get_outlinks(w, page.name)) =
               { links[i].target : i \in DOMAIN links }
        /\ EdgesOfOthers(w, page.name) = EdgesOfOthers(Store, page.name)

\* --------------------------------------------------------------- C29
\* Thread t is inside handle_file_changed with the guard taken.
InUpdate(th) == th.pc \in {"update_locked", "update_checked"}

\* Thread t completes handle_file_changed for the file it has read.
UpdateStep(t) == threads[t].pc = "update_checked" /\ threads'[t].pc = "process"

\* The step emits one page event, PageUpdated when the page is in the Store
\* and PageCreated when it is not, then one of the event vectors
\* update_page returns for the file, and leaves the Store update_page
\* leaves.
UpdateEvents(t) ==
    LET th == threads[t]
        name == file_stem(th.path)
        page == PageNode_with_metadata(name, th.path, th.content.metadata,
                                       th.content.modified)
        emitted == Appended(t)
        after == [graph |-> graph', node_index |-> node_index']
    IN  /\ Len(emitted) >= 1
        /\ emitted[1] = IF page_exists(Store, name) THEN PageUpdated(name)
                        ELSE PageCreated(name)
        /\ \E now \in Times :
              /\ Tail(emitted) \in update_page_events(Store, page,
                                                      th.content.links, now)
              /\ after = update_page(Store, page, th.content.links, now).store

\* C29: a watcher that handles an existing, readable file holds the guard
\* of the Store from before its existence check until update_page is done,
\* the Store does not change in between, and the step that ends the call
\* emits exactly one page event first (PageCreated when the page was not in
\* the Store under the guard, PageUpdated otherwise) and then exactly the
\* link events of update_page.
C29_PageEventThenLinkEvents ==
    /\ [](\A t \in DOMAIN threads : InUpdate(threads[t]) => graph_lock.locked)
    /\ [][\A t \in DOMAIN threads :
             InUpdate(threads[t]) /\ InUpdate(threads'[t]) =>
                 /\ graph' = graph /\ node_index' = node_index
                 /\ graph_lock' = graph_lock
                 /\ Appended(t) = <<>>]_vars
    /\ [][\A t \in DOMAIN threads : UpdateStep(t) => UpdateEvents(t)]_vars

\* A.md was handled when page A was already in the Store as the target of
\* B's link: the batch holds PageUpdated(A) and right after it the
\* LinkCreated of A's own link.
C29_Witness ==
    /\ ~graph_lock.locked
    /\ \E t \in DOMAIN threads :
         \E i \in 1..(Len(threads[t].graph_events) - 1) :
             /\ threads[t].graph_events[i] = PageUpdated("A")
             /\ threads[t].graph_events[i + 1] = LinkCreated("A", "A")

\* --------------------------------------------------------------- C30
\* Thread t takes the next path of its batch and classifies it.
ClassifyStep(t) ==
    threads[t].pc = "process" /\ threads'[t].pc \in {"changed", "deleted"}

\* Thread t completes handle_file_changed in this step.
ChangedStep(t) == threads[t].pc = "update" /\ threads'[t].pc = "process"

\* C30: the watcher handles a path as changed exactly when the file is on
\* disk at the moment the path is taken from the batch, whatever was done
\* to the file before; a path handled as deleted yields no PageCreated and
\* no PageUpdated, and a path handled as changed and read yields one of
\* the two and no PageDeleted.
C30_ClassifiedByExistenceAtProcessing ==
    /\ [][\A t \in DOMAIN threads :
             ClassifyStep(t) =>
                 (threads'[t].pc = "changed" <=>
                      disk[threads'[t].path].exists)]_vars
    /\ [][\A t \in DOMAIN threads :
             DeletionStep(t) =>
                 \A i \in DOMAIN Appended(t) :
                     Appended(t)[i].type \notin {"PageCreated", "PageUpdated"}]_vars
    /\ [][\A t \in DOMAIN threads :
             ChangedStep(t) =>
                 /\ Len(Appended(t)) >= 1
                 /\ Appended(t)[1].type \in {"PageCreated", "PageUpdated"}
                 /\ \A i \in DOMAIN Appended(t) :
                        Appended(t)[i].type # "PageDeleted"]_vars

\* The file was written and removed before the watcher took its path from
\* the batch: the path is being handled as deleted, no page was ever made
\* for the text that was lost and nothing was emitted for it.
C30_Witness ==
    /\ disk[MdPath("A")] = Removed
    /\ ~page_exists(Store, "A")
    /\ event_queue.inner = <<>>
    /\ \E t \in DOMAIN threads :
         /\ threads[t].pc = "deleted"
         /\ threads[t].path = MdPath("A")
         /\ threads[t].graph_events = <<>>

\* The file was removed and created again before the removal was
\* processed: its page was updated and never deleted.
C30_RecreatedHandledAsChanged ==
    /\ disk[MdPath("A")].exists
    /\ page_exists(Store, "A")
    /\ event_queue.inner = <<PageCreated("A"), PageUpdated("A")>>

\* --------------------------------------------------------------- C31
\* Thread t is inside a batch: between the receipt of the batch and the
\* push of its events.
InBatch(th) ==
    th.pc \in {"process", "changed", "update", "deleted", "push"}

\* Thread t leaves its closure in this step.
ExitStep(t) == ~is_finished(t) /\ threads'[t].pc = "done"

\* C31: the watcher thread exits only at the head of its loop (or when its
\* start-up fails), with no batch in hand: a batch that is being processed
\* when stop is requested keeps its course, path by path, with the flag
\* set, and its events are pushed before the thread exits.
C31_StopObservedBetweenBatches ==
    /\ [][\A t \in DOMAIN threads :
             ExitStep(t) =>
                 /\ threads[t].pc \in {"spawned", "loop"}
                 /\ threads[t].events = <<>>
                 /\ threads[t].graph_events = <<>>
                 /\ threads[t].path = NoPath]_vars
    /\ [][\A t \in DOMAIN threads :
             InBatch(threads[t]) /\ threads'[t] # threads[t]
                 /\ threads'[t].pc # "loop" =>
                     /\ InBatch(threads'[t])
                     /\ \A i \in DOMAIN threads[t].graph_events :
                            threads'[t].graph_events[i] =
                                threads[t].graph_events[i]]_vars
    /\ [][\A t \in DOMAIN threads :
             threads[t].pc = "push" /\ threads'[t].pc = "loop" =>
                 event_queue'.inner =
                     event_queue.inner \o threads[t].graph_events]_vars

\* stop_watching waits in its join while the watcher, with the flag set,
\* is in the middle of a batch: one file is handled, its events are in
\* hand and another path is still to come.
C31_Witness ==
    /\ caller.op = "stop_watching" /\ caller.pc = "join"
    /\ \E t \in DOMAIN threads :
         /\ threads[t].stop_flag
         /\ threads[t].pc = "process"
         /\ threads[t].events # <<>>
         /\ threads[t].graph_events # <<>>

\* --------------------------------------------------------------- C32
\* Thread t ends its batch in this step.
PushStep(t) == threads[t].pc = "push" /\ threads'[t].pc = "loop"

\* C32: the queue changes in two ways only: the step that ends a batch
\* appends all the events of the batch, in the order they were made, behind
\* what the queue holds, and a drain takes everything; no other step of the
\* watcher touches the queue, and a batch without events leaves it alone.
\* So a drain finds of every batch all the events or none.
C32_BatchPushedAtOnce ==
    /\ [][\A t \in DOMAIN threads :
             PushStep(t) =>
                 event_queue'.inner =
                     event_queue.inner \o threads[t].graph_events]_vars
    /\ [][event_queue' # event_queue =>
             \/ \E t \in DOMAIN threads :
                    PushStep(t) /\ threads[t].graph_events # <<>>
             \/ event_queue'.inner = <<>> /\ threads' = threads]_vars

\* The watcher has processed a batch of two files and holds their events,
\* the second file's behind the first's, while the queue still holds an
\* earlier batch that the caller can drain at any moment.
C32_Witness ==
    /\ event_queue.inner # <<>>
    /\ \E t \in DOMAIN threads :
         /\ threads[t].pc = "push"
         /\ Cardinality(threads[t].seen_paths) = 2
         /\ Cardinality({ i \in DOMAIN threads[t].graph_events :
                            threads[t].graph_events[i].type
                                \in {"PageCreated", "PageUpdated",
                                     "PageDeleted"} }) = 2

\* --------------------------------------------------------------- C33
\* Thread t gives up the file in hand in this step: the read has failed,
\* or the Store lock was found poisoned.
FailedStep(t) ==
    /\ threads'[t].pc = "process"
    /\ \/ threads[t].pc = "changed"
       \/ threads[t].pc \in {"update", "deleted"} /\ graph_lock.poisoned

\* C33: a file whose read fails, or whose step finds the Store lock
\* poisoned, changes nothing in the Store and adds no event, and the batch
\* goes on: the paths still to come and the events made so far are kept,
\* the handling of a file always returns to the for loop, the batch ends
\* only when every path has been taken up, and the events of the other
\* files are pushed.
C33_FailedFileSkipped ==
    /\ [][\A t \in DOMAIN threads :
             FailedStep(t) =>
                 /\ graph' = graph /\ node_index' = node_index
                 /\ threads'[t] = [threads[t] EXCEPT !.pc = "process",
                                                     !.path = NoPath,
                                                     !.content = NoFile]]_vars
    /\ [][\A t \in DOMAIN threads :
             threads[t].pc \in {"changed", "update", "deleted"} =>
                 /\ threads'[t].pc \in {threads[t].pc, "update", "process"}
                 /\ threads'[t].events = threads[t].events]_vars
    /\ [][\A t \in DOMAIN threads :
             threads[t].pc = "process" /\ threads'[t].pc = "push" =>
                 threads[t].events = <<>>]_vars
    /\ [][\A t \in DOMAIN threads :
             PushStep(t) =>
                 event_queue'.inner # <<>> \/ threads[t].graph_events = <<>>]_vars

\* A batch of A.md and B.md ends with both paths taken up: the read of
\* A.md failed (the file is on disk, no page of it is in the Store and no
\* event of it in hand) and B.md was processed after it.
C33_Witness ==
    /\ disk[MdPath("A")].exists
    /\ ~page_exists(Store, "A")
    /\ page_exists(Store, "B")
    /\ ~graph_lock.poisoned
    /\ \E t \in DOMAIN threads :
         /\ threads[t].pc = "push"
         /\ threads[t].seen_paths = MdPaths
         /\ threads[t].graph_events = <<PageCreated("B")>>

\* --------------------------------------------------------------- C34
\* The page events for the page of path among events.
PageEventsOf(events, path) ==
    { i \in DOMAIN events :
        /\ events[i].type \in {"PageCreated", "PageUpdated", "PageDeleted"}
        /\ events[i].name = file_stem(path) }

\* C34: a batch takes up no path twice, however often the path comes in
\* it, and so holds at most one page event for each path (the files have
\* pairwise distinct names).
C34_PathOncePerBatch ==
    /\ [](\A t \in DOMAIN threads : \A path \in MdPaths :
             Cardinality(PageEventsOf(threads[t].graph_events, path)) <= 1)
    /\ [][\A t \in DOMAIN threads :
             ClassifyStep(t) =>
                 threads'[t].path \notin threads[t].seen_paths]_vars

\* The batch holds A.md twice: the page event of A.md is in hand and the
\* second coming of its path is still ahead.
C34_Witness ==
    \E t \in DOMAIN threads :
        /\ threads[t].pc = "process"
        /\ MdPath("A") \in threads[t].seen_paths
        /\ \E i \in DOMAIN threads[t].events :
               threads[t].events[i] = MdPath("A")
        /\ Cardinality(PageEventsOf(threads[t].graph_events, MdPath("A"))) = 1

\* --------------------------------------------------------------- C35
\* The .md files on disk.
MdOnDisk == { p \in OnDisk : is_md(p) }

\* The Store build_from_directory leaves from w when the files on disk are
\* enumerated in the given order and every one is read.
BuiltFrom(w, order, now) ==
    build_from_directory(w, scan_directory(order, NoFaults).results, now)

\* C35: whatever the Store holds and in whatever order the files are
\* enumerated, build_from_directory leaves the same pages and the same
\* edges as a build from the empty Store in any other order; the page of
\* every file has the file's path and metadata, and every other page is the
\* stub of a link target that has no file.
C35_BuildOrderIndependent ==
    \A o1 \in Orders(OnDisk), o2 \in Orders(OnDisk), now \in Times :
        LET r1 == BuiltFrom(Store, o1, now)
            r2 == BuiltFrom(WikiGraph_new, o2, now)
            targets == { l[2] : l \in FileLinks(MdOnDisk) }
            names == { file_stem(p) : p \in MdOnDisk }
        IN  /\ PageSet(r1) = PageSet(r2)
            /\ EdgeSet(r1) = EdgeSet(r2)
            /\ page_count(r1) = Cardinality(names \cup targets)
            /\ link_count(r1) = Cardinality(EdgeSet(r1))
            /\ \A p \in MdOnDisk :
                   [name |-> file_stem(p), file_path |-> p,
                    metadata |-> disk[p].metadata] \in PageSet(r1)
            /\ \A page \in PageSet(r1) :
                   page.name \notin names =>
                       /\ page.name \in targets
                       /\ page.file_path = StubPath(page.name)
                       /\ page.metadata = EmptyMeta

\* A rebuild has returned Ok over two files: B.md links to C, whose file
\* sub/C.md gives the page its path, and sub/C.md links to A, which has no
\* file and is a stub.
C35_Witness ==
    /\ caller.result = <<"rebuild", "Ok">>
    /\ MdOnDisk = {MdPath("B"), SubPath}
    /\ <<"B", "C", NoText>> \in EdgeSet(Store)
    /\ <<"C", "A", NoText>> \in EdgeSet(Store)
    /\ [name |-> "C", file_path |-> SubPath, metadata |-> EmptyMeta]
           \in PageSet(Store)
    /\ [name |-> "A", file_path |-> StubPath("A"), metadata |-> EmptyMeta]
           \in PageSet(Store)

\* --------------------------------------------------------------- C36
\* The events are link events of the page and nothing else.
LinkEventsOf(events, name) ==
    \A i \in DOMAIN events :
        /\ events[i].type \in {"LinkCreated", "LinkRemoved"}
        /\ events[i].from = name

\* C36: in every reachable Store, update_page with a link whose target is
\* not in the Store leaves the target as a stub page (empty metadata, path
\* <target>.md), an edge from the page to the target with the link's
\* display text, one page more for the stub, and returns link events of
\* the updated page only, LinkCreated(page, target) among them.
C36_UpdatePageMaterializesStub ==
    \A page \in PlainPages, links \in ShortLinkLists(DisplayTexts),
       now \in Times :
        LET r == update_page(Store, page, links, now)
            w == r.store
            name == page.name
        IN  /\ \A events \in update_page_events(Store, page, links, now) :
                   LinkEventsOf(events, name)
            /\ \A i \in DOMAIN links :
                   LET target == links[i].target IN
                   (~page_exists(Store, target) /\ target # name) =>
                       /\ get_page(w, target) =
                              {PageNode_new(target, StubPath(target), now)}
                       /\ <<name, target, links[i].display_text>>
                              \in EdgeSet(w)
                       /\ page_count(w) = page_count(Store) + 1
                              + (IF page_exists(Store, name) THEN 0 ELSE 1)
                       /\ \A events \in
                              update_page_events(Store, page, links, now) :
                              LinkCreated(name, target) \in Range(events)

\* The Store of the example: page A was updated with one link to the
\* missing B under a display text; there are two pages and one link.
C36_Witness ==
    /\ page_count(Store) = 2
    /\ link_count(Store) = 1
    /\ get_page(Store, "A") = {PlainPage("A")}
    /\ get_page(Store, "B") = {PageNode_new("B", StubPath("B"), 1)}
    /\ EdgeSet(Store) = {<<"A", "B", "txt">>}
    /\ update_page_events(WikiGraph_new, PlainPage("A"),
                          <<ParsedLink("B", "txt")>>, 1)
           = {<<LinkCreated("A", "B")>>}
    /\ update_page(WikiGraph_new, PlainPage("A"),
                   <<ParsedLink("B", "txt")>>, 1).store = Store

\* --------------------------------------------------------------- C37
\* The page of name is a stub: it has the attributes update_page gives the
\* page of a missing link target, and no outgoing links.
IsStub(w, name) ==
    /\ \E now \in Times :
          get_page(w, name) = {PageNode_new(name, StubPath(name), now)}
    /\ get_outlinks(w, name) = <<>>

\* The edges that point at the page of name.
EdgesInto(w, name) == { e \in EdgeSet(w) : e[2] = name }

\* Thread t completes handle_file_changed, under the Store lock, for the
\* file it has read.
HandledStep(t) ==
    /\ threads[t].pc = "update"
    /\ threads'[t].pc = "process"
    /\ lock(graph_lock) = "Ok"

\* C37: when the watcher handles a file whose name is in the Store as a
\* stub, the first event of the call is PageUpdated for the name, the call
\* emits no PageCreated for it, the page takes the file's path, metadata
\* and time, every edge that pointed at the stub points at the page
\* afterwards, and no other page gains an edge to it.
C37_StubCountsAsExisting ==
    [][\A t \in DOMAIN threads :
          LET th == threads[t]
              name == file_stem(th.path)
              after == [graph |-> graph', node_index |-> node_index']
          IN  HandledStep(t) /\ IsStub(Store, name) =>
                  /\ Appended(t) # <<>>
                  /\ Appended(t)[1] = PageUpdated(name)
                  /\ PageCreated(name) \notin Range(Appended(t))
                  /\ get_page(after, name) =
                         {PageNode_with_metadata(name, th.path,
                                                 th.content.metadata,
                                                 th.content.modified)}
                  /\ EdgesInto(Store, name) \subseteq EdgesInto(after, name)
                  /\ { e \in EdgesInto(after, name) : e[1] # name } =
                         EdgesInto(Store, name)]_vars

\* One batch held A.md, which links to B, and then B.md, which links to A:
\* B entered the Store as the stub of A's link, so the batch reports
\* PageUpdated for B and never PageCreated, and A's edge points at the
\* page of B.md, which now has its own link.
C37_Witness ==
    \E t \in DOMAIN threads :
        /\ threads[t].graph_events =
               <<PageCreated("A"), LinkCreated("A", "B"),
                 PageUpdated("B"), LinkCreated("B", "A")>>
        /\ event_queue.inner = <<>>
        /\ EdgeSet(Store) = {<<"A", "B", NoText>>, <<"B", "A", NoText>>}
        /\ disk[MdPath("B")].exists
        /\ get_page(Store, "B") =
               {PageNode_with_metadata("B", MdPath("B"), EmptyMeta,
                                       disk[MdPath("B")].modified)}

\* --------------------------------------------------------------- C38
\* update_page called once for every parsed file, in the order given.
RECURSIVE UpdateEach(_, _, _)
UpdateEach(w, parsed_pages, now) ==
    IF parsed_pages = <<>> THEN w
    ELSE UpdateEach(update_page(w, Head(parsed_pages).page,
                                Head(parsed_pages).links, now).store,
                    Tail(parsed_pages), now)

\* C38: for the .md files on disk, which have distinct names,
\* build_from_directory in any enumeration order leaves the pages (names,
\* paths, metadata) and the edges that update_page leaves when it is called
\* once per file, in any order, on an empty Store.
C38_BuildEqualsUpdates ==
    \A o1 \in Orders(OnDisk), o2 \in Orders(OnDisk), now \in Times :
        LET built == BuiltFrom(Store, o1, now)
            updated == UpdateEach(WikiGraph_new,
                                  scan_directory(o2, NoFaults).results, now)
        IN  /\ PageSet(built) = PageSet(updated)
            /\ EdgeSet(built) = EdgeSet(updated)
            /\ page_count(built) = page_count(updated)
            /\ link_count(built) = link_count(updated)

\* A rebuild has returned Ok over A.md, which links to C, and sub/C.md,
\* which links to A; update_page for A.md and then for sub/C.md, whose page
\* is a stub in between, gives the pages and edges of the Store.
C38_Witness ==
    /\ caller.result = <<"rebuild", "Ok">>
    /\ MdOnDisk = {MdPath("A"), SubPath}
    /\ EdgeSet(Store) = {<<"A", "C", NoText>>, <<"C", "A", NoText>>}
    /\ LET first == update_page(WikiGraph_new, ParsedPage(MdPath("A")).page,
                                ParsedPage(MdPath("A")).links, 1).store
           second == update_page(first, ParsedPage(SubPath).page,
                                 ParsedPage(SubPath).links, 1).store
       IN  /\ get_page(first, "C") = {PageNode_new("C", StubPath("C"), 1)}
           /\ PageSet(second) = PageSet(Store)
           /\ EdgeSet(second) = EdgeSet(Store)

\* --------------------------------------------------------------- C39
\* The caller is inside rebuild.
InRebuild(c) == c.op = "rebuild" /\ c.pc \in {"join", "build", "spawn"}

\* rebuild takes the Store lock and build_from_directory returns in this
\* step.
BuildStep == caller.pc = "build" /\ caller'.pc # "build" /\ lock(graph_lock) = "Ok"

\* q1 is a prefix of q2.
IsPrefix(q1, q2) == Len(q1) <= Len(q2) /\ SubSeq(q2, 1, Len(q1)) = q1

\* C39: when build_from_directory returns an error, rebuild returns IOError
\* and the Store is empty, whatever it held before; when it returns Ok, the
\* Store is built from the files the scan has read alone.  The step leaves the event
\* queue as it is, and from the call of rebuild to its return no event that
\* is pending in the queue is removed or changed.
C39_FailedBuildLeavesEmptyStore ==
    /\ [][BuildStep =>
             LET after == [graph |-> graph', node_index |-> node_index'] IN
             /\ event_queue' = event_queue
             /\ IF caller'.pc = "idle" /\ caller'.result = <<"rebuild", "IOError">>
                THEN /\ after = WikiGraph_new
                     /\ page_count(after) = 0
                     /\ link_count(after) = 0
                ELSE \E access \in Accesses({""}, {}),
                        order \in Orders(OnDisk), now \in Times :
                        LET scan == scan_directory(order, access) IN
                        /\ scan.ok
                        /\ after = build_from_directory(WikiGraph_new,
                                                        scan.results, now)]_vars
    /\ [][InRebuild(caller) =>
             IsPrefix(event_queue.inner, event_queue'.inner)]_vars

\* rebuild has returned IOError: the page of A.md, whose PageCreated event
\* is still pending in the queue, is gone from the Store although the file
\* is on disk.
C39_Witness ==
    /\ caller.pc = "idle"
    /\ caller.result = <<"rebuild", "IOError">>
    /\ disk[MdPath("A")].exists
    /\ InQueue(PageCreated("A"))
    /\ page_count(Store) = 0
    /\ link_count(Store) = 0

\* --------------------------------------------------------------- C40
\* A step of watcher thread t, every lock taken and dropped in a step of
\* its own.
LockedStep(t) ==
    \/ WatcherStartup(t, {TRUE, FALSE})
    \/ WatcherCheckStop(t)
    \/ WatcherRecv(t)
    \/ WatcherProcess(t)
    \/ WatcherRead(t)
    \/ LockChanged(t)
    \/ CheckExisting(t)
    \/ ApplyUpdate(t)
    \/ LockDeleted(t)
    \/ CaptureOutlinks(t)
    \/ RemoveCaptured(t)
    \/ QueueLock(t)
    \/ PushLocked(t)

\* Thread t waits for the guard of the Store, or for the guard of the
\* queue.
WaitsForStore(t) ==
    threads[t].pc \in {"update", "deleted"} /\ lock(graph_lock) = "Blocked"
WaitsForQueue(t) ==
    threads[t].pc = "push" /\ threads[t].graph_events # <<>> /\ ~QueueFree

\* The caller waits for the watcher thread it has stopped.
WaitsForJoin == caller.pc = "join" /\ ~join_returns(caller.handle)

\* C40: with one caller and the watcher, the Store lock is held exactly
\* while a watcher is inside a handler or the caller inside a read, so a
\* watcher that pushes and a caller that joins, polls or waits hold no
\* Store lock; a caller that waits for the watcher thread waits for a
\* thread that can take a step, and so does a caller that is about to
\* build while a watcher is inside the Store; and a watcher that cannot
\* take a step is finished or waits for a lock the caller holds and is
\* able to drop.
C40_NoDeadlock ==
    /\ graph_lock.locked <=> InsideCount = 1
    /\ InsideCount <= 1
    /\ WaitsForJoin => ENABLED LockedStep(caller.handle.thread)
    /\ caller.pc = "build" /\ lock(graph_lock) = "Blocked" =>
           \E t \in Inside : ENABLED LockedStep(t)
    /\ \A t \in DOMAIN threads :
           \/ threads[t].pc = "done"
           \/ ENABLED LockedStep(t)
           \/ WaitsForStore(t) /\ caller.pc = "reading" /\ ENABLED ReadUnlock
           \/ WaitsForQueue(t) /\ caller.pc = "draining" /\ ENABLED PollUnlock

\* The caller has stopped the watcher and waits for its thread while the
\* thread is inside handle_file_changed with the guard of the Store.
C40_Witness ==
    /\ WaitsForJoin
    /\ threads[caller.handle.thread].pc = "update_locked"
    /\ threads[caller.handle.thread].stop_flag
    /\ graph_lock.locked

\* A watcher waits for the guard of the Store while the caller reads.
C40_WatcherWaitsForRead ==
    \E t \in DOMAIN threads : WaitsForStore(t) /\ caller.pc = "reading"

\* A watcher waits for the guard of the queue while the caller drains it.
C40_WatcherWaitsForPoll ==
    \E t \in DOMAIN threads : WaitsForQueue(t) /\ caller.pc = "draining"

====
